---- MODULE Spec2Model ----
(***************************************************************************)
(* Model of PositionInspector (src/miner_objects/position_inspector.py):   *)
(* the retry loop that polls validators for this miner's positions and the *)
(* reconciliation that picks one canonical position list.                  *)
(***************************************************************************)
EXTENDS Integers, Sequences, FiniteSets, TLC

\* ------------------------------------------------------------------------
\* Bounds and program constants
\* ------------------------------------------------------------------------

\* The value the class attribute MAX_RETRIES ships with.
ShippedMaxRetries == 1

\* Largest value of MAX_RETRIES the model configures (the attribute is read
\* through self, so a subclass or an instance may raise it).
MaxRetries == 3

\* Most orders a single position record carries.
MaxOrders == 1

\* Number of update intervals the clock of the update loop covers.
ClockIntervals == 3

\* Most log_validator_positions calls in one run of the update loop.
MaxLogCalls == 3

INITIAL_RETRY_DELAY == 3

\* MinerConfig.STAKE_MIN and MinerConfig.AXON_NO_IP
STAKE_MIN == 100

AXON_NO_IP == "0.0.0.0"

\* MinerConfig.HIGH_V_TRUST_THRESHOLD = 0.5, in percent
HIGH_V_TRUST_THRESHOLD == 50

UPDATE_INTERVAL_S == 5 * 60

\* The registry (metagraph) in uid order; hotkeys are opaque identities.
AllHotkeys == <<"A", "B", "C">>

Hotkeys == {AllHotkeys[i] : i \in 1..Len(AllHotkeys)}

\* corresponding_hotkey before any peer was selected
None == "None"

\* ------------------------------------------------------------------------
\* Data
\* ------------------------------------------------------------------------

\* A position record as the peers send it: position['orders'] is a list,
\* position['net_leverage'] a number.
Position(n, l) == [orders |-> [i \in 1..n |-> "order"], net_leverage |-> l]

\* The position lists a peer can reply with: the empty list, a list whose
\* position has no order, two lists with one order and opposite leverage, a
\* two-position list (orders and leverage add up over the positions), and a
\* one-position list for every larger number of orders.
Replies ==
    {<<>>, <<Position(0, 5)>>, <<Position(1, 5)>>, <<Position(1, -5)>>,
     <<Position(1, 5), Position(1, -5)>>}
    \cup {<<Position(n, 5)>> : n \in 2..MaxOrders}

\* One synapse response of dendrite.query: the fields that decide what
\* query_positions returns (a response that was not processed carries no positions).
Responses ==
    [successfully_processed : {TRUE}, positions : Replies]
    \cup [successfully_processed : {FALSE}, positions : {<<>>}]

Range(s) == {s[i] : i \in 1..Len(s)}

Abs(x) == IF x < 0 THEN -x ELSE x

RECURSIVE Pow2(_)
Pow2(n) == IF n <= 0 THEN 1 ELSE 2 * Pow2(n - 1)

\* All orderings of a set, as sequences without repetition.
Orderings(S) ==
    {s \in [1..Cardinality(S) -> S] : \A i, j \in 1..Cardinality(S) : s[i] = s[j] => i = j}

\* The sub-lists of a list (order kept).
SubLists(s) ==
    {SelectSeq(s, LAMBDA x : x \in K) : K \in SUBSET Range(s)}

\* ------------------------------------------------------------------------
\* Python dict with insertion order: a sequence of <<key, value>> pairs
\* ------------------------------------------------------------------------
DictKeys(d) == [i \in 1..Len(d) |-> d[i][1]]

DictHas(d, k) == \E i \in 1..Len(d) : d[i][1] = k

DictGet(d, k) == d[CHOOSE i \in 1..Len(d) : d[i][1] = k][2]

\* d[k] = v : an existing key keeps its place, a new key goes last
DictSet(d, k, v) ==
    IF DictHas(d, k)
    THEN [i \in 1..Len(d) |-> IF d[i][1] = k THEN <<k, v>> ELSE d[i]]
    ELSE Append(d, <<k, v>>)

\* ------------------------------------------------------------------------
\* State
\* ------------------------------------------------------------------------
VARIABLES
    MAX_RETRIES,                \* class attribute, fixed for a run
    metagraph_neurons,          \* hotkeys of self.metagraph.neurons (external registry)
    recently_acked_validators,  \* self.recently_acked_validators
    pc,                         \* "idle" | "running" | "returned" | "raised"
    validators_to_query,        \* argument of get_positions_with_retry
    attempts,                   \* local of get_positions_with_retry
    delay,                      \* local of get_positions_with_retry
    hotkey_to_positions,        \* local dict of get_positions_with_retry
    result,                     \* value returned by get_positions_with_retry
    corresponding_hotkey,       \* peer reconcile_validator_positions selected
    warnings,                   \* warnings logged by reconcile_validator_positions
    queried,                    \* history: the peers queried in each attempt
    sleeps,                     \* history: the time.sleep durations, in order
    sent                        \* history: peer -> the positions of its successfully processed response

\* PositionInspector.log_validator_positions and its clock
VARIABLES
    now,                        \* time.time(), in seconds
    last_update_time,           \* self.last_update_time
    log_calls,                  \* history: number of log_validator_positions calls made
    log_return,                 \* value the last log_validator_positions call returned
    log_outcome                 \* history: how that call ended: "none" | "skipped" | "refreshed" | "raised"

\* PositionInspector.run_update_loop
VARIABLES
    stop_requested,             \* self.stop_requested
    run_pc,                     \* "not_started" | "head" | "in_call" | "sleep" | "exited"
    last_query_time             \* history: time.time() of the last dendrite query (0: none yet)

\* CacheController: eliminations and plagiarism scores, in memory and on disk
VARIABLES
    eliminations,               \* self.eliminations
    disk_eliminations,          \* the "eliminations" list of the eliminations file
    miner_plagiarism_scores,    \* self.miner_plagiarism_scores
    disk_scores,                \* the plagiarism scores file
    blocklist,                  \* miner ids of the plagiarism blocklist file
    cache_call                  \* history: the last CacheController operation, <<name, arguments or logged counts>>

\* CacheController.is_drawdown_beyond_mdd: its configuration, arguments and result
VARIABLES
    MAX_DAILY_DRAWDOWN,         \* ValiConfig.MAX_DAILY_DRAWDOWN, in percent
    MAX_TOTAL_DRAWDOWN,         \* ValiConfig.MAX_TOTAL_DRAWDOWN, in percent
    dd,                         \* argument dd, in percent
    time_now,                   \* argument time_now: [hour, minute, second]
    mdd_result                  \* what is_drawdown_beyond_mdd returned

\* CacheController.get_miner_position_from_disk: the position files and one read
VARIABLES
    position_files,             \* file path -> condition of the file on disk
    read_file,                  \* argument file
    read_result                 \* how the call ended: [kind, detail, file_string]

\* the files and directories of the validator's cache that exist on disk
VARIABLES
    cache_files

\* PositionInspector.get_possible_validators and the registry it reads
VARIABLES
    is_testnet,                 \* self.is_testnet
    registry_neurons,           \* self.metagraph.neurons: a list of [hotkey, stake, ip]
    possible_validators         \* history: [calls, result] of get_possible_validators

\* PositionInspector.get_positions_with_retry called several times
VARIABLES
    calls,                      \* history: number of get_positions_with_retry calls made
    acked_before                \* history: self.recently_acked_validators when the current call began

\* CacheController.get_all_miner_positions and get_all_miner_positions_by_hotkey
VARIABLES
    positions_call              \* history: the last call: [op, hotkeys, eliminations, args, raised, result]

\* SignalGenerator
VARIABLES
    current_position,           \* self.current_position
    signal_call                 \* history: the last call: [op, args, before, sends, raised]

\* PositionInspector.query_positions called on its own
VARIABLES
    validator_trust,            \* hotkey -> neuron.validator_trust of the registry's neurons, in percent
    query_call                  \* history: the last query_positions call: arguments, registry trust, responses, ret, warnings

inspectorVars == <<MAX_RETRIES, metagraph_neurons, recently_acked_validators, pc,
                   validators_to_query, attempts, delay, hotkey_to_positions, result,
                   corresponding_hotkey, warnings, queried, sleeps, sent>>

loopVars == <<now, last_update_time, log_calls, log_return, log_outcome>>

eliminationVars == <<eliminations, disk_eliminations>>

scoreVars == <<miner_plagiarism_scores, disk_scores, blocklist>>

drawdownVars == <<MAX_DAILY_DRAWDOWN, MAX_TOTAL_DRAWDOWN, dd, time_now, mdd_result>>

readVars == <<position_files, read_file, read_result>>

queryVars == <<validator_trust, query_call>>

registryVars == <<is_testnet, registry_neurons, possible_validators>>

callVars == <<calls, acked_before>>

positionsVars == <<positions_call>>

signalVars == <<current_position, signal_call>>

storeVars == <<readVars, cache_files, queryVars, registryVars, callVars, positionsVars,
               signalVars>>

runVars == <<stop_requested, run_pc>>

cacheVars == <<eliminationVars, scoreVars, cache_call>>

vars == <<inspectorVars, loopVars, cacheVars, drawdownVars, storeVars, runVars, last_query_time>>

\* ------------------------------------------------------------------------
\* query_positions
\* ------------------------------------------------------------------------

\* remaining_validators_to_query: the validators not collected yet, in list order
RemainingValidatorsAll(validators, h2p) == validators

RemainingValidators(validators, h2p) ==
    SelectSeq(validators, LAMBDA v : ~DictHas(h2p, v))

\* dendrite.query gathers the replies and returns one response per queried
\* axon, in the order of the axons it was given, whatever order they arrived in.
DendriteQueryArrivalOrder(remaining, arr, resp) ==
    [i \in 1..Len(remaining) |-> resp[arr[i]]]

DendriteQuery(remaining, arr, resp) ==
    [i \in 1..Len(remaining) |-> resp[remaining[i]]]

\* a response is collected when it was successfully processed
IsCollected(response) == response.successfully_processed

\* ret of query_positions: (validator, response.positions) for each collected
\* response, validators zipped with the responses
QueryPositions(validators, h2p, resp, arr) ==
    LET remaining == RemainingValidators(validators, h2p)
        responses == DendriteQuery(remaining, arr, resp)
        zipped    == [i \in 1..Len(remaining) |-> <<remaining[i], responses[i]>>]
        kept      == SelectSeq(zipped, LAMBDA p : IsCollected(p[2]))
    IN  [i \in 1..Len(kept) |-> <<kept[i][1], kept[i][2].positions>>]

\* for p in positions: hotkey_to_positions[p[0].hotkey] = p[1]
RECURSIVE MergePositions(_, _, _)
MergePositions(h2p, positions, i) ==
    IF i > Len(positions) THEN h2p
    ELSE MergePositions(DictSet(h2p, positions[i][1], positions[i][2]), positions, i + 1)

\* ------------------------------------------------------------------------
\* reconcile_validator_positions
\* ------------------------------------------------------------------------

\* sum of len(position['orders']) over the positions of one reply
RECURSIVE OrderCount(_)
OrderCount(positions) ==
    IF positions = <<>> THEN 0
    ELSE Len(Head(positions).orders) + OrderCount(Tail(positions))

\* sum of abs(position['net_leverage']) over the positions of one reply
RECURSIVE TotalLeverage(_)
TotalLeverage(positions) ==
    IF positions = <<>> THEN 0
    ELSE Abs(Head(positions).net_leverage) + TotalLeverage(Tail(positions))

IsHighLeverageAboveTen(leverage) == leverage > 10

IsHighLeverage(leverage) == leverage >= 10

IsNewMaxAnyOrders(count, max_order_count) == count > 0

IsNewMax(count, max_order_count) == count > max_order_count

\* orders_count is a defaultdict(int): reading orders_count[hotkey] in the
\* comparison creates the entry 0 for a peer whose position list is empty.
HasCountEntryPlainDict(positions) == positions # <<>>

HasCountEntry(positions) == TRUE

\* hotkey_to_v_trust[hotkey] raises KeyError for a hotkey that is not a neuron
VTrustIndexRaises(neurons, hotkey) == hotkey \notin neurons

\* hotkey_to_v_trust.get(hotkey, 0) never raises
VTrustGetRaisesIndexed(neurons, hotkey) == hotkey \notin neurons

VTrustGetRaises(neurons, hotkey) == FALSE

ReconcileInit ==
    [orders_count            |-> <<>>,
     max_order_count         |-> 0,
     corresponding_positions |-> <<>>,
     corresponding_hotkey    |-> None,
     high_leverage           |-> {}]

\* one iteration of "for hotkey, positions in hotkey_to_positions.items()"
ReconcileStep(acc, hotkey, positions) ==
    LET count    == OrderCount(positions)
        leverage == TotalLeverage(positions)
        newmax   == IsNewMax(count, acc.max_order_count)
    IN  [orders_count            |-> IF HasCountEntry(positions)
                                     THEN DictSet(acc.orders_count, hotkey, count)
                                     ELSE acc.orders_count,
         max_order_count         |-> IF newmax THEN count ELSE acc.max_order_count,
         corresponding_positions |-> IF newmax THEN positions ELSE acc.corresponding_positions,
         corresponding_hotkey    |-> IF newmax THEN hotkey ELSE acc.corresponding_hotkey,
         high_leverage           |-> IF IsHighLeverage(leverage)
                                     THEN acc.high_leverage \cup {hotkey}
                                     ELSE acc.high_leverage]

RECURSIVE ReconcileLoop(_, _, _)
ReconcileLoop(acc, h2p, i) ==
    IF i > Len(h2p) THEN acc
    ELSE ReconcileLoop(ReconcileStep(acc, h2p[i][1], h2p[i][2]), h2p, i + 1)

\* The whole call: what it returns or that it raised, and what it logged.
\*   desync        : "Spilling hotkey to positions:" was logged
\*   spilled       : the peers enumerated by the per-peer desync warnings
\*   high_leverage : the peers the high-leverage warning was logged for
Reconcile(h2p, validators, neurons) ==
    LET acc           == ReconcileLoop(ReconcileInit, h2p, 1)
        oc            == acc.orders_count
        unique_counts == {oc[i][2] : i \in 1..Len(oc)}
        desync        == Cardinality(unique_counts) > 1
        bad           == {i \in 1..Len(oc) :
                             \/ oc[i][1] \notin Range(validators)
                             \/ VTrustIndexRaises(neurons, oc[i][1])}
        firstBad      == IF bad = {} THEN Len(oc) + 1
                         ELSE CHOOSE i \in bad : \A j \in bad : i <= j
        spillRaises   == desync /\ bad # {}
        raised        == spillRaises \/ VTrustGetRaises(neurons, acc.corresponding_hotkey)
    IN  [raised               |-> raised,
         positions            |-> acc.corresponding_positions,
         corresponding_hotkey |-> acc.corresponding_hotkey,
         max_order_count      |-> acc.max_order_count,
         desync               |-> desync,
         spilled              |-> IF desync THEN SubSeq(DictKeys(oc), 1, firstBad - 1) ELSE <<>>,
         high_leverage        |-> acc.high_leverage]

\* ------------------------------------------------------------------------
\* get_positions_with_retry
\* ------------------------------------------------------------------------

\* delay *= 2
NextDelayConstant(d) == d

NextDelay(d) == d * 2

LoopConditionNoEarlyExit(n, h2p, validators) == n < MAX_RETRIES

\* the while condition
LoopCondition(n, h2p, validators) ==
    n < MAX_RETRIES /\ Len(h2p) # Len(validators)

\* self.recently_acked_validators = hotkey_to_positions.keys()
AckedValidatorsAllQueried(h2p, validators) == validators

AckedValidators(h2p, validators) == DictKeys(h2p)

NoWarnings == [desync |-> FALSE, spilled |-> <<>>, high_leverage |-> {}]

\* the registry members in uid order
RegistryList == SelectSeq(AllHotkeys, LAMBDA h : h \in metagraph_neurons)

\* time.time() when the inspector is constructed: seconds since the epoch,
\* more than one update interval
ClockStart == UPDATE_INTERVAL_S + 1

\* the inspector before its first call
InspectorInit ==
    /\ recently_acked_validators = <<>>
    /\ pc = "idle"
    /\ validators_to_query = <<>>
    /\ attempts = 0
    /\ delay = INITIAL_RETRY_DELAY
    /\ hotkey_to_positions = <<>>
    /\ result = <<>>
    /\ corresponding_hotkey = None
    /\ warnings = NoWarnings
    /\ queried = <<>>
    /\ sleeps = <<>>
    /\ sent = <<>>

LoopVarsInit ==
    /\ now = ClockStart
    /\ last_update_time = 0
    /\ log_calls = 0
    /\ log_return = None
    /\ log_outcome = "none"

\* a CacheController right after __init__, over empty files
CacheVarsInit ==
    /\ eliminations = <<>>
    /\ disk_eliminations = <<>>
    /\ miner_plagiarism_scores = <<>>
    /\ disk_scores = <<>>
    /\ blocklist = {}
    /\ cache_call = <<"none">>

DrawdownVarsInit ==
    /\ MAX_DAILY_DRAWDOWN = 0
    /\ MAX_TOTAL_DRAWDOWN = 0
    /\ dd = 0
    /\ time_now = [hour |-> 0, minute |-> 0, second |-> 0]
    /\ mdd_result = None

\* no position file on disk and no read made
ReadVarsInit ==
    /\ position_files = <<>>
    /\ read_file = None
    /\ read_result = [kind |-> None, detail |-> {}, file_string |-> None]

\* the paths init_cache_files looks after
CachePaths == {"vali_dir", "eliminations", "plagiarism_scores", "miner_dir"}

\* no trust read from the registry and no query_positions call made
QueryVarsInit ==
    /\ validator_trust = <<>>
    /\ query_call = [made |-> FALSE, validators |-> <<>>, hotkey_to_positions |-> <<>>,
                     trust |-> <<>>, responses |-> <<>>, ret |-> <<>>, warned |-> {}]

\* a main-network inspector with an empty registry, get_possible_validators not called
RegistryVarsInit ==
    /\ is_testnet = FALSE
    /\ registry_neurons = <<>>
    /\ possible_validators = [calls |-> 0, result |-> <<>>]

\* no get_positions_with_retry call made
CallVarsInit ==
    /\ calls = 0
    /\ acked_before = <<>>

\* the argument eliminations=None
NoEliminations == [is_none |-> TRUE, rows |-> <<>>]

\* no positions read for a miner yet
PositionsVarsInit ==
    positions_call = [op |-> None, hotkeys |-> <<>>, eliminations |-> NoEliminations,
                      args |-> None, raised |-> None, result |-> <<>>]

\* a flat SignalGenerator, no call made
NoSignalCall == [op |-> None, args |-> None, before |-> 0, sends |-> 0, raised |-> FALSE]

SignalVarsInit ==
    /\ current_position = 0
    /\ signal_call = NoSignalCall

StoreVarsInit ==
    /\ SignalVarsInit
    /\ ReadVarsInit
    /\ cache_files = CachePaths
    /\ QueryVarsInit
    /\ RegistryVarsInit
    /\ CallVarsInit
    /\ PositionsVarsInit
    /\ SignalVarsInit

\* __init__: stop_requested = False; run_update_loop not started, no query made
RunVarsInit ==
    /\ stop_requested = FALSE
    /\ run_pc = "not_started"
    /\ last_query_time = 0

Init ==
    /\ MAX_RETRIES \in ShippedMaxRetries..MaxRetries
    /\ metagraph_neurons \in SUBSET Hotkeys
    /\ InspectorInit
    /\ LoopVarsInit
    /\ CacheVarsInit
    /\ DrawdownVarsInit
    /\ StoreVarsInit
    /\ RunVarsInit

\* get_positions_with_retry is entered with a list of validators taken from
\* the registry (get_possible_validators keeps registry order).
Call ==
    /\ pc = "idle"
    /\ \E vals \in SubLists(RegistryList) : validators_to_query' = vals
    /\ pc' = "running"
    /\ attempts' = 0
    /\ delay' = INITIAL_RETRY_DELAY
    /\ hotkey_to_positions' = <<>>
    /\ result' = <<>>
    /\ corresponding_hotkey' = None
    /\ warnings' = NoWarnings
    /\ queried' = <<>>
    /\ sleeps' = <<>>
    /\ sent' = <<>>
    /\ UNCHANGED <<MAX_RETRIES, metagraph_neurons, recently_acked_validators>>
    /\ UNCHANGED <<loopVars, cacheVars, drawdownVars, storeVars, runVars, last_query_time>>

\* one iteration of the while loop: backoff sleep, one query round, merge
Attempt ==
    /\ pc = "running"
    /\ LoopCondition(attempts, hotkey_to_positions, validators_to_query)
    /\ LET remaining == RemainingValidators(validators_to_query, hotkey_to_positions)
       IN  \E resp \in [Range(remaining) -> Responses],
              arr \in Orderings(Range(remaining)) :
             LET positions == QueryPositions(validators_to_query, hotkey_to_positions, resp, arr)
             IN  /\ hotkey_to_positions' = MergePositions(hotkey_to_positions, positions, 1)
                 /\ queried' = Append(queried, Range(remaining))
                 /\ sent' = [h \in DOMAIN sent \cup
                                   {g \in Range(remaining) : resp[g].successfully_processed}
                               |-> IF h \in Range(remaining) /\ resp[h].successfully_processed
                                   THEN resp[h].positions
                                   ELSE sent[h]]
    /\ sleeps' = IF attempts > 0 THEN Append(sleeps, delay) ELSE sleeps
    /\ delay' = IF attempts > 0 THEN NextDelay(delay) ELSE delay
    /\ attempts' = attempts + 1
    /\ last_query_time' =
           IF RemainingValidators(validators_to_query, hotkey_to_positions) # <<>>
           THEN now ELSE last_query_time
    /\ UNCHANGED <<MAX_RETRIES, metagraph_neurons, recently_acked_validators, pc,
                   validators_to_query, result, corresponding_hotkey, warnings>>
    /\ UNCHANGED <<loopVars, cacheVars, drawdownVars, storeVars, runVars>>

\* after the loop: record the acked validators, reconcile, return
Finish ==
    /\ pc = "running"
    /\ ~LoopCondition(attempts, hotkey_to_positions, validators_to_query)
    /\ recently_acked_validators' = AckedValidators(hotkey_to_positions, validators_to_query)
    /\ LET r == Reconcile(hotkey_to_positions, validators_to_query, metagraph_neurons)
       IN  /\ pc' = IF r.raised THEN "raised" ELSE "returned"
           /\ result' = IF r.raised THEN <<>> ELSE r.positions
           /\ corresponding_hotkey' = r.corresponding_hotkey
           /\ warnings' = [desync |-> r.desync, spilled |-> r.spilled,
                           high_leverage |-> r.high_leverage]
    /\ UNCHANGED <<MAX_RETRIES, metagraph_neurons, validators_to_query, attempts, delay,
                   hotkey_to_positions, queried, sleeps, sent>>
    /\ UNCHANGED <<loopVars, cacheVars, drawdownVars, storeVars, runVars, last_query_time>>

\* the external component refreshes the registry: a neuron registers or leaves
RegistrySync(members) ==
    /\ \E h \in members :
          metagraph_neurons' = IF h \in metagraph_neurons
                               THEN metagraph_neurons \ {h}
                               ELSE metagraph_neurons \cup {h}
    /\ UNCHANGED <<MAX_RETRIES, recently_acked_validators, pc, validators_to_query,
                   attempts, delay, hotkey_to_positions, result, corresponding_hotkey,
                   warnings, queried, sleeps, sent>>
    /\ UNCHANGED <<loopVars, cacheVars, drawdownVars, storeVars, runVars, last_query_time>>

MetagraphSync == RegistrySync(Hotkeys)

Next == Call \/ Attempt \/ Finish \/ MetagraphSync

Spec == Init /\ [][Next]_vars

\* ------------------------------------------------------------------------
\* log_validator_positions, called again and again as run_update_loop does
\* ------------------------------------------------------------------------

\* the readings of time.time(): just after and one second later, per interval
ClockValues == {k * UPDATE_INTERVAL_S + j : k \in 1..ClockIntervals, j \in 1..2}

RefreshAllowedInclusive == (now - last_update_time) >= UPDATE_INTERVAL_S

\* refresh_allowed()
RefreshAllowed == (now - last_update_time) > UPDATE_INTERVAL_S

\* time passes
Tick ==
    /\ \E t \in ClockValues : t > now /\ now' = t
    /\ UNCHANGED <<inspectorVars, last_update_time, log_calls, log_return, log_outcome,
                   cacheVars, drawdownVars, storeVars, runVars, last_query_time>>

\* log_validator_positions when refresh_allowed() is false: return at once
SkipRefresh ==
    /\ pc = "idle"
    /\ log_calls < MaxLogCalls
    /\ ~RefreshAllowed
    /\ log_calls' = log_calls + 1
    /\ log_return' = None
    /\ log_outcome' = "skipped"
    /\ UNCHANGED <<inspectorVars, now, last_update_time,
                   cacheVars, drawdownVars, storeVars, last_query_time>>

LogSkip == SkipRefresh /\ UNCHANGED runVars

\* log_validator_positions when refresh_allowed(): get_possible_validators,
\* then enter get_positions_with_retry
BeginRefresh ==
    /\ pc = "idle"
    /\ log_calls < MaxLogCalls
    /\ RefreshAllowed
    /\ log_calls' = log_calls + 1
    /\ \E vals \in SubLists(RegistryList) : validators_to_query' = vals
    /\ pc' = "running"
    /\ attempts' = 0
    /\ delay' = INITIAL_RETRY_DELAY
    /\ hotkey_to_positions' = <<>>
    /\ result' = <<>>
    /\ corresponding_hotkey' = None
    /\ warnings' = NoWarnings
    /\ queried' = <<>>
    /\ sleeps' = <<>>
    /\ sent' = <<>>
    /\ UNCHANGED <<MAX_RETRIES, metagraph_neurons, recently_acked_validators,
                   now, last_update_time, log_return, log_outcome,
                   cacheVars, drawdownVars, storeVars, last_query_time>>

LogBegin == BeginRefresh /\ UNCHANGED runVars

\* get_positions_with_retry returned: record the time, return (nothing)
EndRefresh ==
    /\ pc = "returned"
    /\ pc' = "idle"
    /\ last_update_time' = now
    /\ log_return' = None
    /\ log_outcome' = "refreshed"
    /\ UNCHANGED <<MAX_RETRIES, metagraph_neurons, recently_acked_validators,
                   validators_to_query, attempts, delay, hotkey_to_positions, result,
                   corresponding_hotkey, warnings, queried, sleeps, sent,
                   now, log_calls, cacheVars, drawdownVars, storeVars, last_query_time>>

LogEnd == EndRefresh /\ UNCHANGED runVars

\* get_positions_with_retry raised: the exception leaves log_validator_positions
RaiseRefresh ==
    /\ pc = "raised"
    /\ pc' = "idle"
    /\ log_outcome' = "raised"
    /\ UNCHANGED <<MAX_RETRIES, metagraph_neurons, recently_acked_validators,
                   validators_to_query, attempts, delay, hotkey_to_positions, result,
                   corresponding_hotkey, warnings, queried, sleeps, sent,
                   now, last_update_time, log_calls, log_return,
                   cacheVars, drawdownVars, storeVars, last_query_time>>

LogRaise == RaiseRefresh /\ UNCHANGED runVars

\* the registry the update loop runs against
LoopHotkeys == {"A", "B"}

LoopMetagraphSync == RegistrySync(LoopHotkeys)

LoopInit ==
    /\ MAX_RETRIES = ShippedMaxRetries
    /\ metagraph_neurons \in SUBSET LoopHotkeys
    /\ InspectorInit
    /\ LoopVarsInit
    /\ CacheVarsInit
    /\ DrawdownVarsInit
    /\ StoreVarsInit
    /\ RunVarsInit

LoopNext ==
    Tick \/ LogSkip \/ LogBegin \/ Attempt \/ Finish \/ LogEnd \/ LogRaise \/ LoopMetagraphSync

LoopSpec == LoopInit /\ [][LoopNext]_vars

\* ------------------------------------------------------------------------
\* PositionInspector.run_update_loop and stop_update_loop
\* ------------------------------------------------------------------------
\* The values of MAX_RETRIES the update loop is run with: the shipped one, and
\* one that allows a retry.
RunRetries == {ShippedMaxRetries, ShippedMaxRetries + 1}

RunFrame == UNCHANGED <<cacheVars, drawdownVars, storeVars>>

\* while not self.stop_requested: the flag is set, the loop ends
RunExit ==
    /\ run_pc = "head"
    /\ stop_requested
    /\ run_pc' = "exited"
    /\ UNCHANGED <<inspectorVars, loopVars, stop_requested, last_query_time>>
    /\ RunFrame

\* log_validator_positions returns at once (inside the interval)
RunSkip ==
    /\ run_pc = "head"
    /\ ~stop_requested
    /\ SkipRefresh
    /\ run_pc' = "sleep"
    /\ UNCHANGED stop_requested

\* log_validator_positions starts a refresh
RunBegin ==
    /\ run_pc = "head"
    /\ ~stop_requested
    /\ BeginRefresh
    /\ run_pc' = "in_call"
    /\ UNCHANGED stop_requested

\* log_validator_positions returns after a refresh
RunEnd ==
    /\ run_pc = "in_call"
    /\ EndRefresh
    /\ run_pc' = "sleep"
    /\ UNCHANGED stop_requested

\* except Exception: the error is logged and the loop goes on
RunCatchLeavesLoop ==
    /\ run_pc = "in_call"
    /\ RaiseRefresh
    /\ run_pc' = "exited"
    /\ UNCHANGED stop_requested

RunCatch ==
    /\ run_pc = "in_call"
    /\ RaiseRefresh
    /\ run_pc' = "sleep"
    /\ UNCHANGED stop_requested

\* time.sleep(1): at least one second passes
RunSleep ==
    /\ run_pc = "sleep"
    /\ \E t \in ClockValues : t > now /\ now' = t
    /\ run_pc' = "head"
    /\ UNCHANGED <<inspectorVars, last_update_time, log_calls, log_return, log_outcome,
                   stop_requested, last_query_time>>
    /\ RunFrame

\* stop_update_loop(), called from another thread at any time
StopUpdateLoop ==
    /\ ~stop_requested
    /\ stop_requested' = TRUE
    /\ UNCHANGED <<inspectorVars, loopVars, run_pc, last_query_time>>
    /\ RunFrame

RunInit ==
    /\ MAX_RETRIES \in RunRetries
    /\ metagraph_neurons \in SUBSET LoopHotkeys
    /\ InspectorInit
    /\ LoopVarsInit
    /\ CacheVarsInit
    /\ DrawdownVarsInit
    /\ StoreVarsInit
    /\ stop_requested = FALSE
    /\ run_pc = "head"
    /\ last_query_time = 0

RunNext ==
    \/ RunExit \/ RunSkip \/ RunBegin \/ Attempt \/ Finish \/ RunEnd \/ RunCatch
    \/ RunSleep \/ StopUpdateLoop \/ LoopMetagraphSync

RunSpec == RunInit /\ [][RunNext]_vars

\* ------------------------------------------------------------------------
\* CacheController: the eliminations list, in memory and on disk
\* (src/shared_objects/cache_controller.py)
\* ------------------------------------------------------------------------
MaxValidatorCalls == 2

MaxCalls == 2

MaxEliminations == 2

CacheHotkeys == {"A", "B"}

\* CacheController.MAX_DAILY_DRAWDOWN / MAX_TOTAL_DRAWDOWN, the reasons of a row
EliminationReasons == {"MAX_DAILY_DRAWDOWN", "MAX_TOTAL_DRAWDOWN"}

\* drawdown values passed to append_elimination_row, in percent
EliminationDrawdowns == {94}

\* TimeUtil.now_in_millis()
NowInMillis == {1}

GenerateEliminationRowNoReason(hotkey, current_dd, reason, t) ==
    [hotkey |-> hotkey, elimination_initiated_time_ms |-> t,
     dd |-> current_dd, reason |-> "None"]

GenerateEliminationRow(hotkey, current_dd, reason, t) ==
    [hotkey |-> hotkey, elimination_initiated_time_ms |-> t,
     dd |-> current_dd, reason |-> reason]

EliminationRows ==
    {GenerateEliminationRow(h, d, r, t) :
        h \in CacheHotkeys, d \in EliminationDrawdowns,
        r \in EliminationReasons, t \in NowInMillis}

EliminationLists == UNION {[1..n -> EliminationRows] : n \in 0..MaxEliminations}

\* ValiBkpUtils.write_file(location, document): the file holds the document
WriteFile(old_document, document) == document

\* ValiUtils.get_vali_json_file(location, key)
GetValiJsonFile(document) == document

WriteEliminationsToDiskAppend(elims) ==
    WriteFile(disk_eliminations, disk_eliminations \o elims)

WriteEliminationsToDisk(elims) == WriteFile(disk_eliminations, elims)

GetEliminationsFromDisk == GetValiJsonFile(disk_eliminations)

InMetagraphHotkeys(row) == row.hotkey \in metagraph_neurons

GetFilteredEliminationsFromDiskKeepAll == GetEliminationsFromDisk

GetFilteredEliminationsFromDisk == SelectSeq(GetEliminationsFromDisk, InMetagraphHotkeys)

HotkeyInEliminationsOnDisk(hotkey) ==
    \E i \in DOMAIN disk_eliminations : disk_eliminations[i].hotkey = hotkey

\* any(hotkey == x['hotkey'] for x in self.eliminations)
HotkeyInEliminations(hotkey) ==
    \E i \in DOMAIN eliminations : eliminations[i].hotkey = hotkey

ElimFrame ==
    UNCHANGED <<MAX_RETRIES, recently_acked_validators, pc, validators_to_query,
                attempts, delay, hotkey_to_positions, result, corresponding_hotkey,
                warnings, queried, sleeps, sent, loopVars, scoreVars, drawdownVars, storeVars, runVars, last_query_time>>

AppendEliminationRow ==
    /\ Len(eliminations) < MaxEliminations
    /\ \E hotkey \in CacheHotkeys, current_dd \in EliminationDrawdowns,
          mdd_failure \in EliminationReasons, t \in NowInMillis :
          /\ eliminations' =
                 Append(eliminations,
                        GenerateEliminationRow(hotkey, current_dd, mdd_failure, t))
          /\ cache_call' = <<"append_elimination_row", hotkey, current_dd, mdd_failure>>
    /\ UNCHANGED <<disk_eliminations, metagraph_neurons>>
    /\ ElimFrame

WriteEliminationsFromMemoryToDisk ==
    /\ disk_eliminations' = WriteEliminationsToDisk(eliminations)
    /\ cache_call' = <<"_write_eliminations_from_memory_to_disk", Len(eliminations)>>
    /\ UNCHANGED <<eliminations, metagraph_neurons>>
    /\ ElimFrame

ClearEliminationsFromDisk ==
    /\ disk_eliminations' = WriteFile(disk_eliminations, <<>>)
    /\ cache_call' = <<"clear_eliminations_from_disk">>
    /\ UNCHANGED <<eliminations, metagraph_neurons>>
    /\ ElimFrame

RefreshEliminationsInMemory ==
    /\ eliminations' = GetEliminationsFromDisk
    /\ cache_call' = <<"_refresh_eliminations_in_memory", Len(GetEliminationsFromDisk)>>
    /\ UNCHANGED <<disk_eliminations, metagraph_neurons>>
    /\ ElimFrame

\* the second element of cache_call is the count the "Filtered [n] / m" message logs
RefreshEliminationsInMemoryAndDisk ==
    /\ eliminations' = GetFilteredEliminationsFromDisk
    /\ disk_eliminations' = WriteEliminationsToDisk(eliminations')
    /\ cache_call' = <<"_refresh_eliminations_in_memory_and_disk",
                       Len(GetEliminationsFromDisk) - Len(GetFilteredEliminationsFromDisk)>>
    /\ UNCHANGED metagraph_neurons
    /\ ElimFrame

\* the same call when ValiBkpUtils.write_file raises: the exception leaves
\* _refresh_eliminations_in_memory_and_disk at line 90
RefreshEliminationsWriteFails ==
    /\ eliminations' = GetFilteredEliminationsFromDisk
    /\ cache_call' = <<"_refresh_eliminations_in_memory_and_disk raised",
                       Len(GetEliminationsFromDisk) - Len(GetFilteredEliminationsFromDisk)>>
    /\ UNCHANGED <<disk_eliminations, metagraph_neurons>>
    /\ ElimFrame

CacheMetagraphSync ==
    /\ \E h \in CacheHotkeys :
          /\ metagraph_neurons' = IF h \in metagraph_neurons
                                  THEN metagraph_neurons \ {h}
                                  ELSE metagraph_neurons \cup {h}
          /\ cache_call' = <<"metagraph_sync", h>>
    /\ UNCHANGED <<eliminations, disk_eliminations>>
    /\ ElimFrame

ElimInit ==
    /\ MAX_RETRIES = ShippedMaxRetries
    /\ metagraph_neurons \in SUBSET CacheHotkeys
    /\ InspectorInit
    /\ LoopVarsInit
    /\ DrawdownVarsInit
    /\ StoreVarsInit
    /\ RunVarsInit
    /\ eliminations = <<>>
    /\ disk_eliminations \in EliminationLists
    /\ miner_plagiarism_scores = <<>>
    /\ disk_scores = <<>>
    /\ blocklist = {}
    /\ cache_call = <<"none">>

ElimNext ==
    \/ AppendEliminationRow
    \/ WriteEliminationsFromMemoryToDisk
    \/ ClearEliminationsFromDisk
    \/ RefreshEliminationsInMemory
    \/ RefreshEliminationsInMemoryAndDisk
    \/ RefreshEliminationsWriteFails
    \/ CacheMetagraphSync

ElimSpec == ElimInit /\ [][ElimNext]_vars

\* ------------------------------------------------------------------------
\* The same operations with a caller that appends a row for a hotkey only
\* when _hotkey_in_eliminations(hotkey) is false, over a disk document that
\* starts without two rows for one hotkey
\* ------------------------------------------------------------------------
OneRowPerHotkey(elims) ==
    \A i, j \in DOMAIN elims : elims[i].hotkey = elims[j].hotkey => i = j

\* if not self._hotkey_in_eliminations(hotkey): self.append_elimination_row(hotkey, ...)
GuardedAppendEliminationRow ==
    /\ AppendEliminationRow
    /\ ~HotkeyInEliminations(cache_call'[2])

GuardedElimInit ==
    /\ ElimInit
    /\ OneRowPerHotkey(disk_eliminations)

GuardedElimNext ==
    \/ GuardedAppendEliminationRow
    \/ WriteEliminationsFromMemoryToDisk
    \/ ClearEliminationsFromDisk
    \/ RefreshEliminationsInMemory
    \/ RefreshEliminationsInMemoryAndDisk
    \/ RefreshEliminationsWriteFails
    \/ CacheMetagraphSync

GuardedElimSpec == GuardedElimInit /\ [][GuardedElimNext]_vars

\* ------------------------------------------------------------------------
\* CacheController: the plagiarism scores, in memory and on disk
\* ------------------------------------------------------------------------
\* a dict hotkey -> score is a function on the set of its keys
ScoreValues == {0, 1}

ScoreDocuments == UNION {[keys -> ScoreValues] : keys \in SUBSET CacheHotkeys}

\* {mch: mc for mch, mc in d.items() if mch in keep}
DictFilterWithDefault(d, keep) == [k \in keep |-> IF k \in DOMAIN d THEN d[k] ELSE 0]

DictFilter(d, keep) == [k \in DOMAIN d \cap keep |-> d[k]]

\* {**a, **b}: the entries of b win
MergeDictsFirstWins(a, b) ==
    [k \in DOMAIN a \cup DOMAIN b |-> IF k \in DOMAIN a THEN a[k] ELSE b[k]]

MergeDicts(a, b) ==
    [k \in DOMAIN a \cup DOMAIN b |-> IF k \in DOMAIN b THEN b[k] ELSE a[k]]

GetPlagiarismScoresFromDisk == GetValiJsonFile(disk_scores)

WritePlagiarismScoresToDisk(scores) == WriteFile(disk_scores, scores)

\* {key['miner_id']: 1 for key in blocklist_dict}
BlocklistScores == [k \in blocklist |-> 1]

RegisteredScoresUnfiltered(cached_miner_plagiarism) == cached_miner_plagiarism

RegisteredScores(cached_miner_plagiarism) ==
    DictFilter(cached_miner_plagiarism, metagraph_neurons)

ScoreFrame ==
    UNCHANGED <<inspectorVars, loopVars, eliminationVars, drawdownVars, storeVars, runVars, last_query_time>>

\* the second element of cache_call is the document the call read from disk
RefreshPlagiarismScoresInMemoryAndDisk ==
    /\ miner_plagiarism_scores' =
           MergeDicts(RegisteredScores(GetPlagiarismScoresFromDisk), BlocklistScores)
    /\ disk_scores' = WritePlagiarismScoresToDisk(miner_plagiarism_scores')
    /\ cache_call' = <<"_refresh_plagiarism_scores_in_memory_and_disk",
                       GetPlagiarismScoresFromDisk>>
    /\ UNCHANGED blocklist
    /\ ScoreFrame

\* the same call when ValiBkpUtils.write_file raises at line 153
RefreshPlagiarismScoresWriteFails ==
    /\ miner_plagiarism_scores' =
           MergeDicts(RegisteredScores(GetPlagiarismScoresFromDisk), BlocklistScores)
    /\ cache_call' = <<"_refresh_plagiarism_scores_in_memory_and_disk raised",
                       GetPlagiarismScoresFromDisk>>
    /\ UNCHANGED <<disk_scores, blocklist>>
    /\ ScoreFrame

UpdatePlagiarismScoresInMemory ==
    /\ miner_plagiarism_scores' = GetPlagiarismScoresFromDisk
    /\ cache_call' = <<"_update_plagiarism_scores_in_memory", GetPlagiarismScoresFromDisk>>
    /\ UNCHANGED <<disk_scores, blocklist>>
    /\ ScoreFrame

\* write_plagiarism_scores_to_disk(scores), called by the plagiarism detector
WriteScores ==
    /\ \E scores \in ScoreDocuments :
          /\ disk_scores' = WritePlagiarismScoresToDisk(scores)
          /\ cache_call' = <<"write_plagiarism_scores_to_disk", scores>>
    /\ UNCHANGED <<miner_plagiarism_scores, blocklist>>
    /\ ScoreFrame

ClearPlagiarismScoresFromDisk ==
    /\ disk_scores' = WriteFile(disk_scores, <<>>)
    /\ cache_call' = <<"clear_plagiarism_scores_from_disk">>
    /\ UNCHANGED <<miner_plagiarism_scores, blocklist>>
    /\ ScoreFrame

\* the blocklist file is maintained outside the program
BlocklistEdit ==
    /\ \E h \in CacheHotkeys :
          /\ blocklist' = IF h \in blocklist THEN blocklist \ {h} ELSE blocklist \cup {h}
          /\ cache_call' = <<"blocklist_edit", h>>
    /\ UNCHANGED <<miner_plagiarism_scores, disk_scores>>
    /\ ScoreFrame

ScoreInit ==
    /\ MAX_RETRIES = ShippedMaxRetries
    /\ metagraph_neurons \in SUBSET CacheHotkeys
    /\ InspectorInit
    /\ LoopVarsInit
    /\ DrawdownVarsInit
    /\ StoreVarsInit
    /\ RunVarsInit
    /\ eliminations = <<>>
    /\ disk_eliminations = <<>>
    /\ miner_plagiarism_scores = <<>>
    /\ disk_scores \in ScoreDocuments
    /\ blocklist \in SUBSET CacheHotkeys
    /\ cache_call = <<"none">>

ScoreNext ==
    \/ RefreshPlagiarismScoresInMemoryAndDisk
    \/ RefreshPlagiarismScoresWriteFails
    \/ UpdatePlagiarismScoresInMemory
    \/ WriteScores
    \/ ClearPlagiarismScoresFromDisk
    \/ BlocklistEdit
    \/ CacheMetagraphSync

ScoreSpec == ScoreInit /\ [][ScoreNext]_vars

\* ------------------------------------------------------------------------
\* CacheController.is_drawdown_beyond_mdd
\* ------------------------------------------------------------------------
\* ValiConfig.MAX_DAILY_DRAWDOWN / MAX_TOTAL_DRAWDOWN and the ratios dd are
\* floats; they are kept in percent, which preserves every comparison
DrawdownThresholds == {90, 95}

DrawdownRatios == 89..96

Timestamps ==
    [hour : {0, 1, 23}, minute : {0, 4, 5, 59}, second : {0, 59}]

\* the value False that is_drawdown_beyond_mdd returns when there is no breach
NoBreach == "False"

InDailyWindowInclusive(t) == t.hour = 0 /\ t.minute <= 5

InDailyWindow(t) == t.hour = 0 /\ t.minute < 5

IsBelowTotalInclusive(d) == d <= MAX_TOTAL_DRAWDOWN

IsBelowTotal(d) == d < MAX_TOTAL_DRAWDOWN

IsBelowDailyAnyTime(d, t) == d < MAX_DAILY_DRAWDOWN

IsBelowDailyInWindow(d, t) == d < MAX_DAILY_DRAWDOWN /\ InDailyWindow(t)

IsDrawdownBeyondMddAboveThresholds(d, t) ==
    IF d > MAX_DAILY_DRAWDOWN /\ InDailyWindow(t)
    THEN "MAX_DAILY_DRAWDOWN"
    ELSE IF d > MAX_TOTAL_DRAWDOWN
         THEN "MAX_TOTAL_DRAWDOWN"
         ELSE NoBreach

IsDrawdownBeyondMdd(d, t) ==
    IF IsBelowDailyInWindow(d, t)
    THEN "MAX_DAILY_DRAWDOWN"
    ELSE IF IsBelowTotal(d)
         THEN "MAX_TOTAL_DRAWDOWN"
         ELSE NoBreach

\* one call; time_now is the timestamp in effect after the default of
\* lines 211-212 is applied
IsDrawdownBeyondMddCall ==
    /\ \E d \in DrawdownRatios, t \in Timestamps :
          /\ dd' = d
          /\ time_now' = t
          /\ mdd_result' = IsDrawdownBeyondMdd(d, t)
    /\ UNCHANGED <<MAX_DAILY_DRAWDOWN, MAX_TOTAL_DRAWDOWN>>
    /\ UNCHANGED <<inspectorVars, loopVars, cacheVars, storeVars, runVars, last_query_time>>

DrawdownInit ==
    /\ MAX_RETRIES = ShippedMaxRetries
    /\ metagraph_neurons = {}
    /\ InspectorInit
    /\ LoopVarsInit
    /\ CacheVarsInit
    /\ MAX_DAILY_DRAWDOWN \in DrawdownThresholds
    /\ MAX_TOTAL_DRAWDOWN \in DrawdownThresholds
    /\ dd = 0
    /\ time_now = [hour |-> 0, minute |-> 0, second |-> 0]
    /\ mdd_result = None
    /\ StoreVarsInit
    /\ RunVarsInit

DrawdownNext == IsDrawdownBeyondMddCall

DrawdownSpec == DrawdownInit /\ [][DrawdownNext]_vars

\* ------------------------------------------------------------------------
\* CacheController.get_miner_position_from_disk
\* ------------------------------------------------------------------------
FilePaths == {"f1", "f2", "f3"}

\* what a position file can be on disk
FileConditions ==
    {"absent", "valid", "unreadable", "not_a_pickle", "bad_encoding", "bad_json"}

\* the conditions in which the file is present but does not parse
Unparseable == {"not_a_pickle", "bad_encoding", "bad_json"}

\* Python's exception classes: class -> base class
ExceptionBase ==
    [FileNotFoundError |-> "OSError", PermissionError |-> "OSError",
     OSError |-> "Exception", UnpicklingError |-> "PickleError",
     PickleError |-> "Exception", UnicodeDecodeError |-> "ValueError",
     ValidationError |-> "ValueError", ValueError |-> "Exception",
     Exception |-> "BaseException", BaseException |-> "object"]

RECURSIVE IsInstance(_, _)
IsInstance(exc, class) ==
    \/ exc = class
    \/ exc \in DOMAIN ExceptionBase /\ IsInstance(ExceptionBase[exc], class)

\* ValiBkpUtils.get_file(file): the file's content, or the exception it raises
GetFile(condition) ==
    CASE condition = "absent" -> {[raises |-> "FileNotFoundError"]}
      [] condition = "unreadable" -> {[raises |-> "PermissionError"]}
      [] condition = "bad_encoding" -> {[raises |-> "UnicodeDecodeError"]}
      [] condition = "not_a_pickle" ->
             {[raises |-> "UnpicklingError"], [raises |-> None, file_string |-> condition]}
      [] OTHER -> {[raises |-> None, file_string |-> condition]}

\* Position.parse_raw(file_string): a Position, or the exception it raises
ParseRaw(file_string) ==
    CASE file_string = "valid" -> None
      [] file_string = "not_a_pickle" -> "UnpicklingError"
      [] OTHER -> "ValidationError"

\* the except clauses of lines 236-243, in order; detail lists what the
\* message of the raised exception interpolates
HandlerNoCatchAll(exc, file_string) ==
    IF IsInstance(exc, "FileNotFoundError")
    THEN [kind |-> "ValiFileMissingException", detail |-> {}, file_string |-> file_string]
    ELSE IF IsInstance(exc, "UnpicklingError")
    THEN [kind |-> "ValiBkpCorruptDataException", detail |-> {"file_string", "error"},
          file_string |-> file_string]
    ELSE IF IsInstance(exc, "UnicodeDecodeError")
    THEN [kind |-> "ValiBkpCorruptDataException", detail |-> {"error"},
          file_string |-> file_string]
    ELSE [kind |-> exc, detail |-> {}, file_string |-> file_string]

Handler(exc, file_string) ==
    IF IsInstance(exc, "FileNotFoundError")
    THEN [kind |-> "ValiFileMissingException", detail |-> {}, file_string |-> file_string]
    ELSE IF IsInstance(exc, "UnpicklingError")
    THEN [kind |-> "ValiBkpCorruptDataException", detail |-> {"file_string", "error"},
          file_string |-> file_string]
    ELSE IF IsInstance(exc, "UnicodeDecodeError")
    THEN [kind |-> "ValiBkpCorruptDataException", detail |-> {"error"},
          file_string |-> file_string]
    ELSE IF IsInstance(exc, "Exception")
    THEN [kind |-> "ValiBkpCorruptDataException",
          detail |-> {"error", "file_path", "file_string"}, file_string |-> file_string]
    ELSE [kind |-> exc, detail |-> {}, file_string |-> file_string]

\* the try block of lines 231-235 for one outcome of get_file
GetMinerPositionFromDiskResult(got) ==
    IF got.raises # None
    THEN Handler(got.raises, None)
    ELSE IF ParseRaw(got.file_string) # None
         THEN Handler(ParseRaw(got.file_string), got.file_string)
         ELSE [kind |-> "Position", detail |-> {}, file_string |-> got.file_string]

GetMinerPositionFromDisk ==
    /\ \E file \in FilePaths :
          /\ read_file' = file
          /\ \E got \in GetFile(position_files[file]) :
                read_result' = GetMinerPositionFromDiskResult(got)
    /\ UNCHANGED <<position_files, cache_files, queryVars, registryVars, callVars, positionsVars, signalVars>>
    /\ UNCHANGED <<inspectorVars, loopVars, cacheVars, drawdownVars, runVars, last_query_time>>

ReadInit ==
    /\ MAX_RETRIES = ShippedMaxRetries
    /\ metagraph_neurons = {}
    /\ InspectorInit
    /\ LoopVarsInit
    /\ CacheVarsInit
    /\ DrawdownVarsInit
    /\ RunVarsInit
    /\ QueryVarsInit
    /\ RegistryVarsInit
    /\ CallVarsInit
    /\ PositionsVarsInit
    /\ SignalVarsInit
    /\ cache_files = CachePaths
    /\ position_files \in [FilePaths -> FileConditions]
    /\ read_file = None
    /\ read_result = [kind |-> None, detail |-> {}, file_string |-> None]

ReadNext == GetMinerPositionFromDisk

ReadSpec == ReadInit /\ [][ReadNext]_vars

\* ------------------------------------------------------------------------
\* CacheController.init_cache_files
\* ------------------------------------------------------------------------
\* len() of a list or of a dict
PyLen(d) == Cardinality(DOMAIN d)

\* ValiUtils.get_vali_json_file on a path: the document, empty when no file is there
ReadCacheDocument(path, document) ==
    IF path \in cache_files THEN GetValiJsonFile(document) ELSE <<>>

GetMinerEliminationsFromDisk == ReadCacheDocument("eliminations", disk_eliminations)

NeedsDefaultAlways(document) == TRUE

NeedsDefault(document) == PyLen(document) = 0

\* {hotkey: 0 for hotkey in hotkeys}
MinerCopyingFile == [hotkey \in metagraph_neurons |-> 0]

InitCacheFiles ==
    /\ disk_eliminations' =
           IF NeedsDefault(GetMinerEliminationsFromDisk)
           THEN WriteFile(disk_eliminations, <<>>)
           ELSE disk_eliminations
    /\ disk_scores' =
           IF NeedsDefault(ReadCacheDocument("plagiarism_scores", disk_scores))
           THEN WriteFile(disk_scores, MinerCopyingFile)
           ELSE disk_scores
    /\ cache_files' = CachePaths
    /\ cache_call' = <<"init_cache_files">>
    /\ UNCHANGED <<eliminations, miner_plagiarism_scores, blocklist, readVars, queryVars, registryVars, callVars, positionsVars, signalVars>>
    /\ UNCHANGED <<inspectorVars, loopVars, drawdownVars, runVars, last_query_time>>

\* a file of the cache removed from outside the program
CacheFileRemoved ==
    /\ \E path \in cache_files :
          /\ cache_files' = cache_files \ {path}
          /\ disk_eliminations' = IF path = "eliminations" THEN <<>> ELSE disk_eliminations
          /\ disk_scores' = IF path = "plagiarism_scores" THEN <<>> ELSE disk_scores
          /\ cache_call' = <<"file_removed", path>>
    /\ UNCHANGED <<eliminations, miner_plagiarism_scores, blocklist, readVars, queryVars, registryVars, callVars, positionsVars, signalVars>>
    /\ UNCHANGED <<inspectorVars, loopVars, drawdownVars, runVars, last_query_time>>

InitFilesInit ==
    /\ MAX_RETRIES = ShippedMaxRetries
    /\ metagraph_neurons \in SUBSET CacheHotkeys
    /\ InspectorInit
    /\ LoopVarsInit
    /\ DrawdownVarsInit
    /\ ReadVarsInit
    /\ RunVarsInit
    /\ QueryVarsInit
    /\ RegistryVarsInit
    /\ CallVarsInit
    /\ PositionsVarsInit
    /\ SignalVarsInit
    /\ eliminations = <<>>
    /\ miner_plagiarism_scores = <<>>
    /\ blocklist = {}
    /\ cache_call = <<"none">>
    /\ cache_files \in SUBSET CachePaths
    /\ disk_eliminations \in EliminationLists
    /\ disk_scores \in ScoreDocuments
    /\ "eliminations" \notin cache_files => disk_eliminations = <<>>
    /\ "plagiarism_scores" \notin cache_files => disk_scores = <<>>

InitFilesNext == InitCacheFiles \/ CacheFileRemoved \/ CacheMetagraphSync

InitFilesSpec == InitFilesInit /\ [][InitFilesNext]_vars

\* ------------------------------------------------------------------------
\* query_positions called on its own, with responses that may carry an
\* error message and a registry that holds each neuron's validator_trust
\* ------------------------------------------------------------------------
QueryHotkeys == {"A", "B"}

\* validator_trust values, in percent, around the threshold
TrustValues == {HIGH_V_TRUST_THRESHOLD - 1, HIGH_V_TRUST_THRESHOLD, HIGH_V_TRUST_THRESHOLD + 1}

\* response.error_message: None, the empty string or a message
ErrorMessages == {None, "", "error"}

\* a response: positions arrive with the successfully processed ones
QueryResponses ==
    [successfully_processed : {TRUE}, error_message : ErrorMessages,
     positions : {<<Position(1, 5)>>}]
    \cup [successfully_processed : {FALSE}, error_message : ErrorMessages,
          positions : {<<>>}]

\* truth value of a str-or-None in an if
Truthy(message) == message \notin {None, ""}

\* hotkey_to_v_trust.get(validator.hotkey, 0)
VTrust(trust, hotkey) == IF hotkey \in DOMAIN trust THEN trust[hotkey] ELSE 0

\* the condition of the peer-error warning
LogsPeerError(response, v_trust) ==
    Truthy(response.error_message) /\ v_trust >= HIGH_V_TRUST_THRESHOLD

\* the dicts query_positions can be given: some of the validators, collected
\* in an earlier attempt
CollectedBefore(validators) ==
    {[i \in 1..Len(d) |-> <<d[i], <<>>>>] : d \in SubLists(validators)}

\* one call of query_positions(validators, hotkey_to_positions)
QueryPositionsCall ==
    /\ \E S \in SUBSET QueryHotkeys : \E validators \in Orderings(S) :
       \E h2p \in CollectedBefore(validators) :
          LET remaining == RemainingValidators(validators, h2p)
          IN  \E resp \in [Range(remaining) -> QueryResponses] :
                 query_call' =
                    [made |-> TRUE, validators |-> validators, hotkey_to_positions |-> h2p,
                     trust |-> validator_trust, responses |-> resp,
                     ret |-> QueryPositions(validators, h2p, resp, remaining),
                     warned |-> {v \in Range(remaining) :
                                   LogsPeerError(resp[v], VTrust(validator_trust, v))}]
    /\ UNCHANGED <<validator_trust, readVars, cache_files, registryVars, callVars, positionsVars, signalVars>>
    /\ UNCHANGED <<inspectorVars, loopVars, cacheVars, drawdownVars, runVars, last_query_time>>

\* the metagraph is re-synced: neurons come and go and their trust changes
TrustSync ==
    /\ \E S \in SUBSET QueryHotkeys : \E trust \in [S -> TrustValues] :
          /\ metagraph_neurons' = S
          /\ validator_trust' = trust
    /\ UNCHANGED <<MAX_RETRIES, recently_acked_validators, pc, validators_to_query, attempts,
                   delay, hotkey_to_positions, result, corresponding_hotkey, warnings,
                   queried, sleeps, sent>>
    /\ UNCHANGED <<query_call, readVars, cache_files, registryVars, callVars, positionsVars, signalVars>>
    /\ UNCHANGED <<loopVars, cacheVars, drawdownVars, runVars, last_query_time>>

QueryInit ==
    /\ MAX_RETRIES = ShippedMaxRetries
    /\ metagraph_neurons = {}
    /\ InspectorInit
    /\ LoopVarsInit
    /\ CacheVarsInit
    /\ DrawdownVarsInit
    /\ StoreVarsInit
    /\ RunVarsInit

QueryNext == QueryPositionsCall \/ TrustSync

QuerySpec == QueryInit /\ [][QueryNext]_vars

\* ------------------------------------------------------------------------
\* get_possible_validators over a registry that changes between calls
\* ------------------------------------------------------------------------
RegistryHotkeys == {"A", "B"}

\* n.stake around STAKE_MIN
StakeValues == {STAKE_MIN - 1, STAKE_MIN, STAKE_MIN + 1}

\* n.axon_info.ip: the sentinel or an address
AxonIps == {AXON_NO_IP, "10.0.0.1"}

\* the registries: every listed hotkey once, in any order
Registries ==
    UNION {{[i \in 1..Len(o) |-> [hotkey |-> o[i], stake |-> st[o[i]], ip |-> ip[o[i]]]] :
               st \in [S -> StakeValues], ip \in [S -> AxonIps]} :
           <<S, o>> \in {<<S, o>> \in (SUBSET RegistryHotkeys) \X
                                      UNION {Orderings(T) : T \in SUBSET RegistryHotkeys} :
                             Range(o) = S}}

\* n.axon_info
AxonInfo(n) == [hotkey |-> n.hotkey, ip |-> n.ip]

\* self.metagraph.axons
MetagraphAxons(registry) == [i \in 1..Len(registry) |-> AxonInfo(registry[i])]

IsPossibleValidatorAtStakeMin(n) == n.stake >= STAKE_MIN /\ n.ip # AXON_NO_IP

\* n.stake > bt.Balance(MinerConfig.STAKE_MIN) and n.axon_info.ip != MinerConfig.AXON_NO_IP
IsPossibleValidator(n) == n.stake > STAKE_MIN /\ n.ip # AXON_NO_IP

PossibleValidators(testnet, registry) ==
    IF testnet THEN MetagraphAxons(registry)
    ELSE MetagraphAxons(SelectSeq(registry, IsPossibleValidator))

GetPossibleValidators ==
    /\ possible_validators.calls < MaxValidatorCalls
    /\ possible_validators' =
          [calls |-> possible_validators.calls + 1,
           result |-> PossibleValidators(is_testnet, registry_neurons)]
    /\ UNCHANGED <<is_testnet, registry_neurons, readVars, cache_files, queryVars, callVars, positionsVars, signalVars>>
    /\ UNCHANGED <<inspectorVars, loopVars, cacheVars, drawdownVars, runVars, last_query_time>>

\* the metagraph is re-synced: members are added, removed or changed
NeuronsSync ==
    /\ \E registry \in Registries : registry_neurons' = registry
    /\ UNCHANGED <<is_testnet, possible_validators, readVars, cache_files, queryVars, callVars, positionsVars, signalVars>>
    /\ UNCHANGED <<inspectorVars, loopVars, cacheVars, drawdownVars, runVars, last_query_time>>

RegistryInit ==
    /\ MAX_RETRIES = ShippedMaxRetries
    /\ metagraph_neurons = {}
    /\ InspectorInit
    /\ LoopVarsInit
    /\ CacheVarsInit
    /\ DrawdownVarsInit
    /\ RunVarsInit
    /\ ReadVarsInit
    /\ QueryVarsInit
    /\ CallVarsInit
    /\ PositionsVarsInit
    /\ SignalVarsInit
    /\ cache_files = CachePaths
    /\ is_testnet \in BOOLEAN
    /\ registry_neurons \in Registries
    /\ possible_validators = [calls |-> 0, result |-> <<>>]

RegistryNext == GetPossibleValidators \/ NeuronsSync

RegistrySpec == RegistryInit /\ [][RegistryNext]_vars

\* ------------------------------------------------------------------------
\* get_positions_with_retry called one time after another
\* ------------------------------------------------------------------------
SharedHotkeyToPositions == hotkey_to_positions

\* hotkey_to_positions = {} : a dict local to the call
LocalHotkeyToPositions == <<>>

\* a call is entered when no call is running
CallAgain ==
    /\ pc \in {"idle", "returned", "raised"}
    /\ calls < MaxCalls
    /\ calls' = calls + 1
    /\ acked_before' = recently_acked_validators
    /\ \E vals \in SubLists(RegistryList) : validators_to_query' = vals
    /\ pc' = "running"
    /\ attempts' = 0
    /\ delay' = INITIAL_RETRY_DELAY
    /\ hotkey_to_positions' = LocalHotkeyToPositions
    /\ result' = <<>>
    /\ corresponding_hotkey' = None
    /\ warnings' = NoWarnings
    /\ queried' = <<>>
    /\ sleeps' = <<>>
    /\ sent' = <<>>
    /\ UNCHANGED <<MAX_RETRIES, metagraph_neurons, recently_acked_validators>>
    /\ UNCHANGED <<readVars, cache_files, queryVars, registryVars, positionsVars, signalVars>>
    /\ UNCHANGED <<loopVars, cacheVars, drawdownVars, runVars, last_query_time>>

CallsInit ==
    /\ MAX_RETRIES \in RunRetries
    /\ metagraph_neurons \in SUBSET LoopHotkeys
    /\ InspectorInit
    /\ LoopVarsInit
    /\ CacheVarsInit
    /\ DrawdownVarsInit
    /\ StoreVarsInit
    /\ RunVarsInit

CallsNext == CallAgain \/ Attempt \/ Finish \/ LoopMetagraphSync

CallsSpec == CallsInit /\ [][CallsNext]_vars

\* ------------------------------------------------------------------------
\* get_all_miner_positions and get_all_miner_positions_by_hotkey
\* ------------------------------------------------------------------------
PositionHotkeys == {"A", "B"}

\* ValiBkpUtils.get_all_files_in_dir(miner_dir): the position files of a miner
AllFilesInDir(miner_hotkey) ==
    IF miner_hotkey = "A" THEN <<"f1", "f2">> ELSE <<"f3">>

\* the Position a valid file holds: one position per file
PositionOfFile(file) ==
    CASE file = "f1" -> [file |-> file, open_ms |-> 2, is_closed_position |-> FALSE, close_ms |-> 0]
      [] file = "f2" -> [file |-> file, open_ms |-> 1, is_closed_position |-> TRUE, close_ms |-> 3]
      [] OTHER       -> [file |-> file, open_ms |-> 2, is_closed_position |-> TRUE, close_ms |-> 4]

\* what the position files can be when the positions of a miner are read
PositionFileConditions == {"absent", "valid", "not_a_pickle", "bad_json"}

\* how get_miner_position_from_disk(file) can end
ReadOutcomes(file) ==
    {GetMinerPositionFromDiskResult(got) : got \in GetFile(position_files[file])}

\* one outcome of get_miner_position_from_disk per file
FileOutcomes ==
    {[f \in FilePaths |-> IF f = "f1" THEN o1 ELSE IF f = "f2" THEN o2 ELSE o3] :
        o1 \in ReadOutcomes("f1"), o2 \in ReadOutcomes("f2"), o3 \in ReadOutcomes("f3")}

\* sort_by_close_ms: close_ms of a closed position, infinity of an open one
SortByCloseMs(position) ==
    IF position.is_closed_position THEN <<0, position.close_ms>> ELSE <<1, 0>>

KeyLessOrEqual(a, b) == a[1] < b[1] \/ (a[1] = b[1] /\ a[2] <= b[2])

\* sorted(positions, key=self.sort_by_close_ms): stable
RECURSIVE Sorted(_)
Sorted(positions) ==
    IF Len(positions) <= 1 THEN positions
    ELSE LET rest == Sorted(Tail(positions))
             x    == Head(positions)
             before == SelectSeq(rest, LAMBDA y : ~KeyLessOrEqual(SortByCloseMs(x), SortByCloseMs(y)))
             after  == SelectSeq(rest, LAMBDA y : KeyLessOrEqual(SortByCloseMs(x), SortByCloseMs(y)))
         IN  before \o <<x>> \o after

\* the arguments only_open_positions, sort_positions, acceptable_position_end_ms
\* (end_ms_is_none: acceptable_position_end_ms is None)
PositionArgs ==
    [only_open_positions : BOOLEAN, sort_positions : BOOLEAN,
     end_ms_is_none : BOOLEAN, acceptable_position_end_ms : {1}]

\* the failing reads among the files, in list order
FailedReads(all_files, outcome) ==
    SelectSeq(all_files, LAMBDA f : outcome[f].kind # "Position")

ReadPositionsSkippingFailures(all_files, outcome) ==
    [raised |-> None,
     positions |-> LET ok == SelectSeq(all_files, LAMBDA f : outcome[f].kind = "Position")
                   IN  [i \in 1..Len(ok) |-> PositionOfFile(ok[i])]]

\* [self.get_miner_position_from_disk(file) for file in all_files]: the
\* first read that raises ends the comprehension
ReadPositions(all_files, outcome) ==
    IF FailedReads(all_files, outcome) # <<>>
    THEN [raised |-> outcome[Head(FailedReads(all_files, outcome))].kind, positions |-> <<>>]
    ELSE [raised |-> None,
          positions |-> [i \in 1..Len(all_files) |-> PositionOfFile(all_files[i])]]

\* get_all_miner_positions(miner_hotkey, **args)
GetAllMinerPositionsResult(miner_hotkey, args, outcome) ==
    LET read == ReadPositions(AllFilesInDir(miner_hotkey), outcome)
        recent == IF ~args.end_ms_is_none
                  THEN SelectSeq(read.positions,
                                 LAMBDA x : x.open_ms > args.acceptable_position_end_ms)
                  ELSE read.positions
        open == IF args.only_open_positions
                THEN SelectSeq(recent, LAMBDA x : ~x.is_closed_position)
                ELSE recent
    IN  IF read.raised # None THEN read
        ELSE [raised |-> None,
              positions |-> IF args.sort_positions THEN Sorted(open) ELSE open]

\* set(x['hotkey'] for x in eliminations) if eliminations is not None else set()
EliminatedHotkeysNone(elims) == {}

EliminatedHotkeys(elims) ==
    IF elims.is_none THEN {} ELSE {elims.rows[i].hotkey : i \in 1..Len(elims.rows)}

\* the eliminations argument: None or a list of rows
EliminationArguments ==
    LET row(h) == GenerateEliminationRow(h, 94, "MAX_TOTAL_DRAWDOWN", 1)
    IN  {NoEliminations} \cup
        {[is_none |-> FALSE, rows |-> rows] :
            rows \in {<<>>, <<row("A")>>, <<row("B")>>, <<row("A"), row("B")>>}}

\* the hotkeys argument
HotkeyLists == UNION {Orderings(S) : S \in SUBSET PositionHotkeys}

\* the dict comprehension of get_all_miner_positions_by_hotkey: the first
\* get_all_miner_positions call that raises ends it
GetAllMinerPositionsByHotkeyResult(hotkeys, elims, args, outcome) ==
    LET kept == SelectSeq(hotkeys, LAMBDA h : h \notin EliminatedHotkeys(elims))
        got(h) == GetAllMinerPositionsResult(h, args, outcome)
        failed == SelectSeq(kept, LAMBDA h : got(h).raised # None)
    IN  IF failed # <<>>
        THEN [raised |-> got(Head(failed)).raised, result |-> <<>>]
        ELSE [raised |-> None, result |-> [h \in Range(kept) |-> got(h).positions]]

PositionsFrame ==
    /\ UNCHANGED <<readVars, cache_files, queryVars, registryVars, callVars, signalVars>>
    /\ UNCHANGED <<inspectorVars, loopVars, cacheVars, drawdownVars, runVars, last_query_time>>

\* both calls read the files and keep nothing: the result depends on the
\* arguments and the files only, so the two operations are explored in
\* alternation, each from every state the other leaves
GetAllMinerPositions ==
    /\ positions_call.op # "get_all_miner_positions"
    /\ \E miner_hotkey \in PositionHotkeys, args \in PositionArgs, outcome \in FileOutcomes :
          LET r == GetAllMinerPositionsResult(miner_hotkey, args, outcome)
          IN  positions_call' =
                 [op |-> "get_all_miner_positions", hotkeys |-> <<miner_hotkey>>,
                  eliminations |-> NoEliminations, args |-> args,
                  raised |-> r.raised, result |-> r.positions]
    /\ PositionsFrame

GetAllMinerPositionsByHotkey ==
    /\ positions_call.op # "get_all_miner_positions_by_hotkey"
    /\ \E hotkeys \in HotkeyLists, elims \in EliminationArguments,
          args \in PositionArgs, outcome \in FileOutcomes :
          LET r == GetAllMinerPositionsByHotkeyResult(hotkeys, elims, args, outcome)
          IN  positions_call' =
                 [op |-> "get_all_miner_positions_by_hotkey", hotkeys |-> hotkeys,
                  eliminations |-> elims, args |-> args,
                  raised |-> r.raised, result |-> r.result]
    /\ PositionsFrame

PositionsInit ==
    /\ MAX_RETRIES = ShippedMaxRetries
    /\ metagraph_neurons = {}
    /\ InspectorInit
    /\ LoopVarsInit
    /\ CacheVarsInit
    /\ DrawdownVarsInit
    /\ RunVarsInit
    /\ QueryVarsInit
    /\ RegistryVarsInit
    /\ CallVarsInit
    /\ SignalVarsInit
    /\ cache_files = CachePaths
    /\ position_files \in [FilePaths -> PositionFileConditions]
    /\ read_file = None
    /\ read_result = [kind |-> None, detail |-> {}, file_string |-> None]
    /\ positions_call = [op |-> None, hotkeys |-> <<>>, eliminations |-> NoEliminations,
                         args |-> None, raised |-> None, result |-> <<>>]

PositionsNext == GetAllMinerPositions \/ GetAllMinerPositionsByHotkey

PositionsSpec == PositionsInit /\ [][PositionsNext]_vars

\* ------------------------------------------------------------------------
\* SignalGenerator.generate_signal
\* ------------------------------------------------------------------------
\* current_close, upper_bound, lower_bound and vwap
PriceValues == {1, 2, 3}

\* the positions: short, flat, long
SignalPositions == {-1, 0, 1}

Maximum(a, b) == IF a > b THEN a ELSE b

Minimum(a, b) == IF a < b THEN a ELSE b

\* (vwap_is_none: the argument vwap is None)
SignalArgs ==
    [current_close : PriceValues, upper_bound : PriceValues, lower_bound : PriceValues,
     vwap_is_none : BOOLEAN, vwap : PriceValues, execute_trades : BOOLEAN]

ComputedSignalReversing(position, a) ==
    IF position = 0
    THEN IF a.current_close > a.upper_bound THEN 1
         ELSE IF a.current_close < a.lower_bound THEN -1
         ELSE position
    ELSE IF position = 1 /\ a.current_close < a.lower_bound THEN -1
    ELSE IF position = -1 /\ a.current_close > a.upper_bound THEN 1
    ELSE position

\* the signal computed from the price levels
ComputedSignal(position, a) ==
    IF position = 0
    THEN IF a.current_close > a.upper_bound THEN 1
         ELSE IF a.current_close < a.lower_bound THEN -1
         ELSE position
    ELSE IF a.vwap_is_none
    THEN IF position = 1 /\ a.current_close < a.upper_bound THEN 0
         ELSE IF position = -1 /\ a.current_close > a.lower_bound THEN 0
         ELSE position
    ELSE IF position = 1 /\ a.current_close < Maximum(a.vwap, a.upper_bound) THEN 0
         ELSE IF position = -1 /\ a.current_close > Minimum(a.vwap, a.lower_bound) THEN 0
         ELSE position

\* how sending can end: map_signal_data raised for the asset before anything
\* was sent, the POST answered 200, answered another status (None is
\* returned), or requests.post raised
SendOutcomes == {"unmapped", "sent", "rejected", "raised"}

\* the outcomes in which an exception leaves the call
SendRaises == {"unmapped", "raised"}

SignalFrame ==
    /\ UNCHANGED <<readVars, cache_files, queryVars, registryVars, callVars, positionsVars>>
    /\ UNCHANGED <<inspectorVars, loopVars, cacheVars, drawdownVars, runVars, last_query_time>>

GenerateSignal ==
    /\ \E a \in SignalArgs, outcome \in SendOutcomes :
          LET signal == ComputedSignal(current_position, a)
              trades == a.execute_trades /\ current_position # signal
          IN  /\ current_position' =
                     IF trades /\ outcome \notin SendRaises THEN signal ELSE current_position
              /\ signal_call' =
                     [op |-> "generate_signal", args |-> a, before |-> current_position,
                      sends |-> IF trades /\ outcome # "unmapped" THEN 1 ELSE 0,
                      raised |-> trades /\ outcome \in SendRaises]
    /\ SignalFrame

\* handle_market_closing: an open position is exited at the end of the day
HandleMarketClosing ==
    /\ \E outcome \in SendOutcomes :
          /\ current_position' =
                 IF current_position # 0 /\ outcome \notin SendRaises
                 THEN 0 ELSE current_position
          /\ signal_call' =
                 [op |-> "handle_market_closing", args |-> None, before |-> current_position,
                  sends |-> IF current_position # 0 /\ outcome # "unmapped" THEN 1 ELSE 0,
                  raised |-> current_position # 0 /\ outcome \in SendRaises]
    /\ SignalFrame

SignalInit ==
    /\ MAX_RETRIES = ShippedMaxRetries
    /\ metagraph_neurons = {}
    /\ InspectorInit
    /\ LoopVarsInit
    /\ CacheVarsInit
    /\ DrawdownVarsInit
    /\ RunVarsInit
    /\ ReadVarsInit
    /\ QueryVarsInit
    /\ RegistryVarsInit
    /\ CallVarsInit
    /\ PositionsVarsInit
    /\ cache_files = CachePaths
    /\ current_position \in SignalPositions
    /\ signal_call = NoSignalCall

SignalNext == GenerateSignal \/ HandleMarketClosing

SignalSpec == SignalInit /\ [][SignalNext]_vars

\* ------------------------------------------------------------------------
\* Properties
\* ------------------------------------------------------------------------
Done == pc \in {"returned", "raised"}

\* the peers whose response was successfully processed in some attempt
Replied == DOMAIN sent

\* the greatest order count among the replying peers (0 when none replied)
MaxSentCount ==
    IF Replied = {} THEN 0
    ELSE CHOOSE n \in {OrderCount(sent[h]) : h \in Replied} :
            \A h \in Replied : OrderCount(sent[h]) <= n

\* the first validator of the list, in list order, that sent the greatest count
FirstInListWithMax ==
    LET idx == {i \in 1..Len(validators_to_query) :
                   /\ validators_to_query[i] \in Replied
                   /\ OrderCount(sent[validators_to_query[i]]) = MaxSentCount}
    IN  validators_to_query[CHOOSE i \in idx : \A j \in idx : i <= j]

\* C1: when the call returns, no replying peer sent strictly more orders than
\* the returned list holds, and whenever some peer sent an order a replying
\* peer is selected and the returned list is the one that peer sent.
MaxOrderCountSelected ==
    pc = "returned" =>
        /\ \A h \in Replied : OrderCount(sent[h]) <= OrderCount(result)
        /\ MaxSentCount > 0 => corresponding_hotkey \in Replied
        /\ corresponding_hotkey # None =>
              /\ corresponding_hotkey \in Replied
              /\ result = sent[corresponding_hotkey]

\* a later peer sent more orders than an earlier one, and a still later one fewer
MaxOrderCountSelectedWitness ==
    /\ pc = "returned"
    /\ Len(hotkey_to_positions) = 3
    /\ OrderCount(hotkey_to_positions[1][2]) = 1
    /\ OrderCount(hotkey_to_positions[2][2]) = 2
    /\ OrderCount(hotkey_to_positions[3][2]) = 1
    /\ corresponding_hotkey = hotkey_to_positions[2][1]

\* C2: among the replying peers with the greatest order count, the returned
\* list is the one sent by the peer that comes first in the list passed to the
\* call, whatever attempt each peer answered in.
TieBrokenByListOrder ==
    (pc = "returned" /\ MaxSentCount > 0) => result = sent[FirstInListWithMax]

\* C3: if no response was successfully processed in any attempt (or the list
\* of peers is empty), the call returns the empty list and does not raise.
NoReplyReturnsEmpty ==
    (Done /\ Replied = {}) => (pc = "returned" /\ result = <<>>)

\* three peers failed every attempt of a call that retried
NoReplyReturnsEmptyWitness ==
    /\ pc = "returned"
    /\ Replied = {}
    /\ Len(validators_to_query) = 3
    /\ Len(queried) = MAX_RETRIES
    /\ MAX_RETRIES >= 2
    /\ result = <<>>

\* C4: no sleep precedes the first attempt, the k-th sleep lasts
\* INITIAL_RETRY_DELAY * 2^(k-1), and a peer that failed every attempt was
\* queried in each of exactly MAX_RETRIES attempts and is neither collected
\* nor acked.
RetryExhaustionBackoff ==
    /\ Len(sleeps) = (IF queried = <<>> THEN 0 ELSE Len(queried) - 1)
    /\ \A k \in 1..Len(sleeps) : sleeps[k] = INITIAL_RETRY_DELAY * Pow2(k - 1)
    /\ Done =>
         \A h \in Range(validators_to_query) \ Replied :
            /\ Len(queried) = MAX_RETRIES
            /\ \A k \in 1..Len(queried) : h \in queried[k]
            /\ ~DictHas(hotkey_to_positions, h)
            /\ h \notin Range(recently_acked_validators)

\* a peer failed all three attempts while another one replied
RetryExhaustionBackoffWitness ==
    /\ pc = "returned"
    /\ MAX_RETRIES = 3
    /\ Len(queried) = 3
    /\ sleeps = <<INITIAL_RETRY_DELAY, 2 * INITIAL_RETRY_DELAY>>
    /\ Replied # {}
    /\ Range(validators_to_query) \ Replied # {}

\* C5: the loop is bounded: every query round uses up one of the MAX_RETRIES
\* attempts, so a call issues at most MAX_RETRIES rounds whatever the peers
\* answer; no round is issued with nothing left to query, and none once every
\* peer of the list has replied.
AlwaysTerminates ==
    /\ [](/\ attempts = Len(queried)
          /\ Len(queried) <= MAX_RETRIES
          /\ \A k \in 1..Len(queried) : queried[k] # {})
    /\ [][/\ queried' # queried => (pc = "running" /\ attempts' = attempts + 1)
          /\ Range(validators_to_query) \subseteq Replied => queried' = queried]_vars

\* every peer replied before the attempts were used up
AlwaysTerminatesWitness ==
    /\ Done
    /\ Len(validators_to_query) >= 2
    /\ Range(validators_to_query) = Replied
    /\ Len(queried) = 2
    /\ MAX_RETRIES = 3

\* C6: within a call, a new query round leaves every collected reply as it
\* was, queries no peer that has already replied, and queries again every
\* peer of the list that has not replied yet.
RepliedNeverRequeried ==
    [][(pc = "running" /\ queried' # queried) =>
          LET q == queried'[Len(queried')]
          IN  /\ q \cap Replied = {}
              /\ (Range(validators_to_query) \ Replied) \subseteq q
              /\ \A h \in Replied : sent'[h] = sent[h]
              /\ \A i \in 1..Len(hotkey_to_positions) :
                    /\ i <= Len(hotkey_to_positions')
                    /\ hotkey_to_positions'[i] = hotkey_to_positions[i]]_vars

\* round 1: one peer replied, two failed; round 2 queried exactly those two
RepliedNeverRequeriedWitness ==
    /\ Len(queried) >= 2
    /\ Cardinality(queried[1]) = 3
    /\ Cardinality(queried[2]) = 2
    /\ hotkey_to_positions # <<>>
    /\ hotkey_to_positions[1][1] \notin queried[2]

\* C7: when the call returns, the acked validators are exactly the peers of
\* the list whose response was successfully processed in some attempt.
AckedAreTheRepliers ==
    pc = "returned" =>
        /\ Range(recently_acked_validators) = Replied
        /\ Replied \subseteq Range(validators_to_query)

\* one peer replied in a retry, one failed every attempt
AckedAreTheRepliersWitness ==
    /\ pc = "returned"
    /\ Len(queried) >= 2
    /\ Replied # {}
    /\ Replied # Range(validators_to_query)
    /\ Replied \cap queried[2] # {}
    /\ Range(recently_acked_validators) = Replied

\* C8: when every peer replies in the single round of a call, the returned
\* list is a function of the peer list and of what each peer sent (the list of
\* the first peer in list order with the greatest count, or the empty list
\* when no peer sent an order), whatever order the replies arrived in.
DeterministicWithoutFailures ==
    (pc = "returned" /\ Len(queried) = 1 /\ Replied = Range(validators_to_query)) =>
        result = (IF MaxSentCount > 0 THEN sent[FirstInListWithMax] ELSE <<>>)

\* three peers replied in the single round, two of them tie with different lists
DeterministicWithoutFailuresWitness ==
    /\ pc = "returned"
    /\ Len(queried) = 1
    /\ Len(validators_to_query) = 3
    /\ Replied = Range(validators_to_query)
    /\ OrderCount(sent[validators_to_query[1]]) = 0
    /\ OrderCount(sent[validators_to_query[2]]) = 1
    /\ OrderCount(sent[validators_to_query[3]]) = 1
    /\ sent[validators_to_query[2]] # sent[validators_to_query[3]]
    /\ result = sent[validators_to_query[2]]

\* C9: the desynchronization warning is logged exactly when two replying
\* peers sent different order counts; a peer that never replied is not
\* counted and a replying peer with an empty list counts 0.
DesyncWarningIffCountsDiffer ==
    Done =>
        (warnings.desync <=>
            \E g, h \in Replied : OrderCount(sent[g]) # OrderCount(sent[h]))

\* A and B both sent 2 orders, C failed every attempt: no warning
DesyncWarningIffCountsDifferWitness ==
    /\ pc = "returned"
    /\ validators_to_query = <<"A", "B", "C">>
    /\ Replied = {"A", "B"}
    /\ OrderCount(sent["A"]) = 2
    /\ OrderCount(sent["B"]) = 2
    /\ Len(queried) = MAX_RETRIES
    /\ ~warnings.desync
    /\ recently_acked_validators = <<"A", "B">>

\* C10: the warning paths of reconcile_validator_positions never raise,
\* whatever the replies and the registry are when it runs.
DiagnosticsNeverInterrupt ==
    pc # "raised"

\* C11: a log_validator_positions call made no more than UPDATE_INTERVAL_S
\* seconds after the last completed refresh enters no query round and leaves
\* last_update_time and recently_acked_validators as they were.
SkippedCallIsNoOp ==
    [][(log_calls' # log_calls /\ now - last_update_time <= UPDATE_INTERVAL_S) =>
          /\ pc' = pc
          /\ queried' = queried
          /\ last_update_time' = last_update_time
          /\ recently_acked_validators' = recently_acked_validators]_vars

\* a call exactly UPDATE_INTERVAL_S seconds after a refresh that queried peers
SkippedCallIsNoOpWitness ==
    /\ log_outcome = "skipped"
    /\ queried # <<>>
    /\ recently_acked_validators # <<>>
    /\ now - last_update_time = UPDATE_INTERVAL_S

\* C12: a log_validator_positions call made inside the interval returns the
\* canonical list the last refresh computed.
SkippedCallReturnsLastResult ==
    log_outcome = "skipped" => (log_return # None /\ log_return = result)

\* ------------------------------------------------------------------------
\* Properties of the eliminations cache (ElimSpec)
\* ------------------------------------------------------------------------
RefreshedEliminationsStep ==
    cache_call'[1] = "_refresh_eliminations_in_memory_and_disk"

RowRegistered(row) == row.hotkey \in metagraph_neurons

FlushIsFullReplace ==
    [][cache_call'[1] = "_write_eliminations_from_memory_to_disk" =>
          /\ GetEliminationsFromDisk' = eliminations
          /\ eliminations' = eliminations]_vars

FlushIsFullReplaceWitness ==
    /\ cache_call[1] = "_write_eliminations_from_memory_to_disk"
    /\ Len(eliminations) = 2
    /\ eliminations[1] # eliminations[2]
    /\ disk_eliminations = eliminations

\* C17: append_elimination_row(hotkey, dd, reason) adds exactly one row
\* {hotkey, time, dd, reason} at the end of the in-memory list, changes no
\* existing row and not the document on disk; the document changes only at a
\* write (flush, filtered refresh or clear).
AppendOnlyTouchesMemory ==
    [][/\ cache_call'[1] = "append_elimination_row" =>
             /\ Len(eliminations') = Len(eliminations) + 1
             /\ SubSeq(eliminations', 1, Len(eliminations)) = eliminations
             /\ \E t \in NowInMillis :
                   eliminations'[Len(eliminations')] =
                       [hotkey |-> cache_call'[2],
                        elimination_initiated_time_ms |-> t,
                        dd |-> cache_call'[3],
                        reason |-> cache_call'[4]]
             /\ disk_eliminations' = disk_eliminations
       /\ disk_eliminations' # disk_eliminations =>
             cache_call'[1] \in {"_write_eliminations_from_memory_to_disk",
                                 "_refresh_eliminations_in_memory_and_disk",
                                 "clear_eliminations_from_disk"}]_vars

AppendOnlyTouchesMemoryWitness ==
    /\ cache_call[1] = "append_elimination_row"
    /\ Len(eliminations) = 2
    /\ eliminations[2].hotkey = cache_call[2]
    /\ eliminations[2] \notin Range(disk_eliminations)
    /\ disk_eliminations # <<>>

\* ------------------------------------------------------------------------
\* Properties of the plagiarism scores cache (ScoreSpec)
\* ------------------------------------------------------------------------
RefreshedScores == cache_call[1] = "_refresh_plagiarism_scores_in_memory_and_disk"

HasScore(h) == h \in DOMAIN miner_plagiarism_scores \/ h \in DOMAIN disk_scores

\* C14: after every _refresh_plagiarism_scores_in_memory_and_disk, no identity
\* absent from the registry snapshot has a score, in memory or on disk.
DepartedHaveNoScore ==
    RefreshedScores => \A h \in CacheHotkeys \ metagraph_neurons : ~HasScore(h)

\* C14 (amended): after every _refresh_plagiarism_scores_in_memory_and_disk,
\* an identity absent from the registry snapshot has a score, in memory or on
\* disk, exactly when it is in the blocklist, and that score is then 1.
DepartedHaveNoScoreUnlessBlocked ==
    RefreshedScores =>
        \A h \in CacheHotkeys \ metagraph_neurons :
            IF h \in blocklist
            THEN /\ h \in DOMAIN miner_plagiarism_scores
                 /\ h \in DOMAIN disk_scores
                 /\ miner_plagiarism_scores[h] = 1
                 /\ disk_scores[h] = 1
            ELSE ~HasScore(h)

DepartedHaveNoScoreUnlessBlockedWitness ==
    /\ RefreshedScores
    /\ \E h \in CacheHotkeys \ (metagraph_neurons \cup blocklist) :
          h \in DOMAIN cache_call[2] /\ ~HasScore(h)
    /\ \E h \in blocklist \ metagraph_neurons : miner_plagiarism_scores[h] = 1

\* C15: after every _refresh_plagiarism_scores_in_memory_and_disk, every
\* identity of the blocklist has score 1 in memory and on disk, whatever score
\* was stored for it.
BlocklistedScoreIsOne ==
    RefreshedScores =>
        \A h \in blocklist :
            /\ h \in DOMAIN miner_plagiarism_scores
            /\ miner_plagiarism_scores[h] = 1
            /\ h \in DOMAIN disk_scores
            /\ disk_scores[h] = 1

BlocklistedScoreIsOneWitness ==
    /\ RefreshedScores
    /\ \E h \in blocklist \cap metagraph_neurons :
          /\ h \in DOMAIN cache_call[2]
          /\ cache_call[2][h] = 0
          /\ miner_plagiarism_scores[h] = 1
          /\ disk_scores[h] = 1
    /\ \E h \in metagraph_neurons \ blocklist :
          h \in DOMAIN miner_plagiarism_scores /\ miner_plagiarism_scores[h] = 0

\* ------------------------------------------------------------------------
\* Properties of is_drawdown_beyond_mdd (DrawdownSpec)
\* ------------------------------------------------------------------------
Classified == mdd_result # None

\* the daily reset window: hour 0, minutes 0 to 4
InResetWindow == time_now.hour = 0 /\ time_now.minute \in 0..4

\* C18: a ratio exactly equal to MAX_TOTAL_DRAWDOWN is no breach, for every
\* time_now and every pair of thresholds.
ExactTotalIsNoBreach ==
    (Classified /\ dd = MAX_TOTAL_DRAWDOWN) => mdd_result = NoBreach

\* C18 (amended): a ratio exactly equal to MAX_TOTAL_DRAWDOWN is never
\* classified MAX_TOTAL_DRAWDOWN; it is no breach outside the daily reset
\* window, and inside the window it is no breach unless it is below
\* MAX_DAILY_DRAWDOWN, in which case it is classified MAX_DAILY_DRAWDOWN.
ExactTotalIsNoTotalBreach ==
    (Classified /\ dd = MAX_TOTAL_DRAWDOWN) =>
        /\ mdd_result # "MAX_TOTAL_DRAWDOWN"
        /\ mdd_result = IF InResetWindow /\ dd < MAX_DAILY_DRAWDOWN
                        THEN "MAX_DAILY_DRAWDOWN"
                        ELSE NoBreach

ExactTotalIsNoTotalBreachWitness ==
    /\ Classified
    /\ dd = MAX_TOTAL_DRAWDOWN
    /\ MAX_TOTAL_DRAWDOWN < MAX_DAILY_DRAWDOWN
    /\ ~InResetWindow
    /\ mdd_result = NoBreach

\* C19: outside the daily reset window is_drawdown_beyond_mdd never returns
\* MAX_DAILY_DRAWDOWN: it returns MAX_TOTAL_DRAWDOWN exactly when
\* dd < MAX_TOTAL_DRAWDOWN and no breach otherwise.
OnlyTotalOutsideWindow ==
    (Classified /\ ~InResetWindow) =>
        /\ mdd_result # "MAX_DAILY_DRAWDOWN"
        /\ mdd_result = "MAX_TOTAL_DRAWDOWN" <=> dd < MAX_TOTAL_DRAWDOWN
        /\ mdd_result = NoBreach <=> dd >= MAX_TOTAL_DRAWDOWN

OnlyTotalOutsideWindowWitness ==
    /\ Classified
    /\ ~InResetWindow
    /\ dd < MAX_DAILY_DRAWDOWN
    /\ dd >= MAX_TOTAL_DRAWDOWN
    /\ mdd_result = NoBreach

\* C20: inside the daily reset window (hour 0, minute 0..4: 00:04:59 inside,
\* 00:05:00 outside) is_drawdown_beyond_mdd returns MAX_DAILY_DRAWDOWN whenever
\* dd < MAX_DAILY_DRAWDOWN, also when dd < MAX_TOTAL_DRAWDOWN; the total
\* threshold decides only when dd >= MAX_DAILY_DRAWDOWN.
DailyFirstInsideWindow ==
    /\ (Classified /\ InResetWindow) =>
          mdd_result = IF dd < MAX_DAILY_DRAWDOWN THEN "MAX_DAILY_DRAWDOWN"
                       ELSE IF dd < MAX_TOTAL_DRAWDOWN THEN "MAX_TOTAL_DRAWDOWN"
                       ELSE NoBreach
    /\ (Classified /\ time_now.hour = 0 /\ time_now.minute = 5) =>
          mdd_result # "MAX_DAILY_DRAWDOWN"

DailyFirstInsideWindowWitness ==
    /\ Classified
    /\ time_now = [hour |-> 0, minute |-> 4, second |-> 59]
    /\ dd < MAX_DAILY_DRAWDOWN
    /\ dd < MAX_TOTAL_DRAWDOWN
    /\ mdd_result = "MAX_DAILY_DRAWDOWN"

\* ------------------------------------------------------------------------
\* Properties of get_miner_position_from_disk (ReadSpec)
\* ------------------------------------------------------------------------
ReadMade == read_file # None

ReadCondition == position_files[read_file]

\* C21: get_miner_position_from_disk surfaces only typed errors: an absent
\* file gives ValiFileMissingException, a present file that does not parse
\* gives ValiBkpCorruptDataException for every kind of parse failure and never
\* a Position, and no other exception type escapes.
OnlyTypedReadErrors ==
    ReadMade =>
        /\ read_result.kind \in {"Position", "ValiFileMissingException",
                                 "ValiBkpCorruptDataException"}
        /\ ReadCondition = "absent" => read_result.kind = "ValiFileMissingException"
        /\ ReadCondition \in Unparseable =>
               read_result.kind = "ValiBkpCorruptDataException"
        /\ read_result.kind = "Position" => ReadCondition = "valid"

OnlyTypedReadErrorsWitness ==
    /\ ReadMade
    /\ ReadCondition = "bad_json"
    /\ read_result.kind = "ValiBkpCorruptDataException"
    /\ \E f \in FilePaths : position_files[f] = "absent"

\* C22: every ValiBkpCorruptDataException get_miner_position_from_disk raises
\* carries the file path, the raw content and the underlying parse error,
\* whichever failure caused it.
CorruptErrorCarriesPath ==
    (ReadMade /\ read_result.kind = "ValiBkpCorruptDataException") =>
        {"file_path", "file_string", "error"} \subseteq read_result.detail

\* ------------------------------------------------------------------------
\* Properties of init_cache_files (InitFilesSpec) and of a failing write
\* ------------------------------------------------------------------------
InitCacheFilesStep == cache_call'[1] = "init_cache_files"

HoldsEntries(path, document) == path \in cache_files /\ PyLen(document) > 0

FailedWriteKeepsMemory ==
    [][cache_call'[1] \in {"_refresh_eliminations_in_memory_and_disk raised",
                           "_refresh_plagiarism_scores_in_memory_and_disk raised"} =>
          /\ eliminations' = eliminations
          /\ miner_plagiarism_scores' = miner_plagiarism_scores]_vars

\* ------------------------------------------------------------------------
\* Properties of run_update_loop (RunSpec)
\* ------------------------------------------------------------------------
RefreshStarts == pc = "idle" /\ pc' = "running"

QueryRound == queried' # queried

FirstQueryRound == queried = <<>> /\ queried' # <<>> /\ queried'[1] # {}

\* C25: once stop_update_loop() was called, run_update_loop starts no new
\* refresh, leaves the loop when it next reaches its head, and makes no
\* further retry attempt: the request is honoured between attempts.
StopHonouredBetweenAttempts ==
    [][stop_requested =>
          /\ ~RefreshStarts
          /\ run_pc = "head" => run_pc' \in {"head", "exited"}
          /\ attempts >= 1 => ~QueryRound]_vars

\* C27: two consecutive refreshes of run_update_loop that query peers are more
\* than UPDATE_INTERVAL_S seconds apart, also when the earlier one raised.
RefreshesAreIntervalApart ==
    [][(FirstQueryRound /\ last_query_time # 0) =>
          now - last_query_time > UPDATE_INTERVAL_S]_vars

\* ------------------------------------------------------------------------
\* Properties of reconcile_validator_positions: returned list and risk warning
\* ------------------------------------------------------------------------
\* C26: whenever at least one peer replied, the returned list is the position
\* list one of the replying peers sent, also when every replying peer's order
\* count is 0.
ResultIsSomePeersList ==
    (pc = "returned" /\ Replied # {}) => \E h \in Replied : result = sent[h]

RECURSIVE SumAbsLeverage(_)
SumAbsLeverage(positions) ==
    IF positions = <<>> THEN 0
    ELSE (IF Head(positions).net_leverage < 0
          THEN 0 - Head(positions).net_leverage
          ELSE Head(positions).net_leverage) + SumAbsLeverage(Tail(positions))

\* C30: the high-leverage warning is logged for a replying peer exactly when
\* the sum of abs(net_leverage) over its positions is >= 10, and the returned
\* list is the selected peer's list (the empty list when none is selected)
\* whatever was warned.
HighLeverageWarningAtTen ==
    Done =>
        /\ warnings.high_leverage = {h \in Replied : SumAbsLeverage(sent[h]) >= 10}
        /\ pc = "returned" =>
               result = IF corresponding_hotkey = None THEN <<>>
                        ELSE sent[corresponding_hotkey]

HighLeverageWarningAtTenWitness ==
    /\ pc = "returned"
    /\ \E h \in warnings.high_leverage :
          /\ SumAbsLeverage(sent[h]) = 10
          /\ Len(sent[h]) = 2
          /\ corresponding_hotkey = h
    /\ \E h \in Replied \ warnings.high_leverage : SumAbsLeverage(sent[h]) = 5

\* ------------------------------------------------------------------------
\* Properties of query_positions (QuerySpec)
\* ------------------------------------------------------------------------
\* the peers of ret
Collected == {query_call.ret[i][1] : i \in 1..Len(query_call.ret)}

\* the peers the call queried
Asked == DOMAIN query_call.responses

\* C28: query_positions collects a peer only for a response that is
\* successfully processed and carries no error message.
ErrorResponsesNeverCollected ==
    query_call.made =>
        \A v \in Asked :
            v \in Collected <=>
                /\ query_call.responses[v].successfully_processed
                /\ ~Truthy(query_call.responses[v].error_message)

\* C29: query_positions logs the peer-error warning exactly for the responses
\* that carry an error message from a peer whose trust is strictly greater
\* than HIGH_V_TRUST_THRESHOLD (0 for a peer absent from the registry), and
\* what is collected does not depend on what is logged.
PeerErrorWarningAboveThreshold ==
    query_call.made =>
        /\ query_call.warned =
              {v \in Asked : /\ Truthy(query_call.responses[v].error_message)
                             /\ VTrust(query_call.trust, v) > HIGH_V_TRUST_THRESHOLD}
        /\ Collected = {v \in Asked : query_call.responses[v].successfully_processed}

\* ------------------------------------------------------------------------
\* Properties of get_possible_validators (RegistrySpec)
\* ------------------------------------------------------------------------
GetPossibleValidatorsStep == possible_validators'.calls = possible_validators.calls + 1

\* the members a main-network call must return, in registry order
ExpectedValidators(registry) ==
    LET kept == SelectSeq(registry, LAMBDA n : n.stake > STAKE_MIN /\ n.ip # AXON_NO_IP)
    IN  [i \in 1..Len(kept) |-> [hotkey |-> kept[i].hotkey, ip |-> kept[i].ip]]

\* C31: on a non-test network every get_possible_validators call returns
\* exactly the members of the registry as it is at that call whose stake is
\* strictly greater than STAKE_MIN and whose address is not AXON_NO_IP, in
\* registry order; what an earlier call returned plays no part.
PossibleValidatorsFollowRegistry ==
    [][(GetPossibleValidatorsStep /\ ~is_testnet) =>
          possible_validators'.result = ExpectedValidators(registry_neurons)]_vars

PossibleValidatorsFollowRegistryWitness ==
    /\ ~is_testnet
    /\ possible_validators.calls = 2
    /\ possible_validators.result = ExpectedValidators(registry_neurons)
    /\ possible_validators.result # <<>>
    /\ Len(registry_neurons) = 2
    /\ Len(possible_validators.result) = 1
    /\ \E i \in 1..2 : registry_neurons[i].stake = STAKE_MIN /\ registry_neurons[i].ip # AXON_NO_IP

\* ------------------------------------------------------------------------
\* Properties of consecutive get_positions_with_retry calls (CallsSpec)
\* ------------------------------------------------------------------------
\* C32: what a call collected is local to it: when a call ends, the acked
\* validators and the reconciliation candidates are exactly the peers that
\* replied during that call, whatever earlier calls collected.
CollectedIsLocalToCall ==
    Done =>
        /\ Range(recently_acked_validators) = Replied
        /\ Range(DictKeys(hotkey_to_positions)) = Replied
        /\ \A i \in 1..Len(hotkey_to_positions) :
              hotkey_to_positions[i][2] = sent[hotkey_to_positions[i][1]]

CollectedIsLocalToCallWitness ==
    /\ Done
    /\ calls = 2
    /\ attempts = MAX_RETRIES
    /\ \E h \in Range(acked_before) :
          /\ h \in Range(validators_to_query)
          /\ \A i \in 1..Len(queried) : h \in queried[i]
          /\ h \notin Replied
          /\ h \notin Range(recently_acked_validators)
          /\ ~DictHas(hotkey_to_positions, h)

\* ------------------------------------------------------------------------
\* Properties of the in-memory eliminations list (ElimSpec, GuardedElimSpec)
\* ------------------------------------------------------------------------
SessionOperations ==
    {"append_elimination_row", "_write_eliminations_from_memory_to_disk",
     "_refresh_eliminations_in_memory", "_refresh_eliminations_in_memory_and_disk"}

\* C33: across append, flush and refresh-from-disk operations the in-memory
\* list only grows: a row of a hotkey that is in the registry is still in the
\* list after the operation.
EliminationsAppendOnly ==
    [][cache_call'[1] \in SessionOperations =>
          \A i \in DOMAIN eliminations :
              eliminations[i].hotkey \in metagraph_neurons =>
                  eliminations[i] \in Range(eliminations')]_vars

\* the hotkeys of the rows of a list
RowHotkeys(elims) == {elims[i].hotkey : i \in DOMAIN elims}

\* C34: _hotkey_in_eliminations(h) is true exactly when memory holds a row
\* for h, also right after append_elimination_row(h, ...); with every append
\* guarded by it and a disk document that starts with one row per hotkey at
\* most, memory and disk never hold two rows for one hotkey.
GuardedAppendsKeepOneRow ==
    /\ \A h \in CacheHotkeys : HotkeyInEliminations(h) <=> h \in RowHotkeys(eliminations)
    /\ cache_call[1] = "append_elimination_row" => HotkeyInEliminations(cache_call[2])
    /\ OneRowPerHotkey(eliminations)
    /\ OneRowPerHotkey(disk_eliminations)

GuardedAppendsKeepOneRowWitness ==
    /\ cache_call[1] = "append_elimination_row"
    /\ RowHotkeys(eliminations) = CacheHotkeys
    /\ Len(eliminations) = 2
    /\ Len(disk_eliminations) = 1
    /\ disk_eliminations[1] = eliminations[1]

\* ------------------------------------------------------------------------
\* Frame of _refresh_plagiarism_scores_in_memory_and_disk (ScoreSpec)
\* ------------------------------------------------------------------------
\* C36: after _refresh_plagiarism_scores_in_memory_and_disk every identity
\* that is in the registry and not in the blocklist has exactly the entry it
\* had on disk before the call (the same score, or none), and the score
\* document on disk equals miner_plagiarism_scores.
RefreshKeepsRegisteredScores ==
    RefreshedScores =>
        /\ \A h \in metagraph_neurons \ blocklist :
              /\ h \in DOMAIN miner_plagiarism_scores <=> h \in DOMAIN cache_call[2]
              /\ h \in DOMAIN cache_call[2] => miner_plagiarism_scores[h] = cache_call[2][h]
        /\ disk_scores = miner_plagiarism_scores

RefreshKeepsRegisteredScoresWitness ==
    /\ RefreshedScores
    /\ disk_scores # cache_call[2]
    /\ \E h \in metagraph_neurons \ blocklist :
          /\ h \in DOMAIN cache_call[2]
          /\ cache_call[2][h] = 1
          /\ disk_scores[h] = 1

\* ------------------------------------------------------------------------
\* run_update_loop and exceptions of log_validator_positions (RunSpec)
\* ------------------------------------------------------------------------
\* C37: an exception raised inside log_validator_positions does not end
\* run_update_loop: the step that handles it leads to the sleep of the same
\* iteration, and the loop is left only when stop_requested is set.
RaiseNeverEndsLoop ==
    [][/\ (run_pc = "in_call" /\ pc = "raised" /\ run_pc' # run_pc) =>
              run_pc' = "sleep" /\ log_outcome' = "raised"
       /\ (run_pc # "exited" /\ run_pc' = "exited") => stop_requested]_vars

RaiseNeverEndsLoopWitness ==
    /\ log_outcome = "raised"
    /\ run_pc = "in_call"
    /\ pc = "running"
    /\ log_calls >= 2
    /\ ~stop_requested

\* ------------------------------------------------------------------------
\* Monotonicity of is_drawdown_beyond_mdd (DrawdownSpec)
\* ------------------------------------------------------------------------
\* C38: at a fixed time_now, when is_drawdown_beyond_mdd(dd, time_now) reports
\* a breach it reports a breach (daily or total) for every smaller ratio too,
\* for every pair of thresholds.
BreachMonotoneInRatio ==
    (Classified /\ mdd_result # NoBreach) =>
        \A smaller \in DrawdownRatios :
            smaller < dd => IsDrawdownBeyondMdd(smaller, time_now) # NoBreach

BreachMonotoneInRatioWitness ==
    /\ Classified
    /\ InResetWindow
    /\ mdd_result = "MAX_TOTAL_DRAWDOWN"
    /\ \E smaller \in DrawdownRatios :
          /\ smaller < dd
          /\ IsDrawdownBeyondMdd(smaller, time_now) = "MAX_DAILY_DRAWDOWN"

\* ------------------------------------------------------------------------
\* Properties of get_all_miner_positions(_by_hotkey) (PositionsSpec)
\* ------------------------------------------------------------------------
PositionsRead == positions_call.op # None

\* the hotkeys the eliminations argument of the call names
CallEliminated ==
    IF positions_call.eliminations.is_none THEN {}
    ELSE RowHotkeys(positions_call.eliminations.rows)

\* the miners whose position files the call has to read
MinersRead == Range(positions_call.hotkeys) \ CallEliminated

\* the position files of those miners that are missing or do not parse
DamagedFiles ==
    {f \in UNION {Range(AllFilesInDir(h)) : h \in MinersRead} : position_files[f] # "valid"}

\* C35: when a position file of a miner whose positions are read is missing
\* or does not parse, get_all_miner_positions and
\* get_all_miner_positions_by_hotkey raise ValiFileMissingException or
\* ValiBkpCorruptDataException; they return only when every such file was
\* read, and no position is dropped but by the filters the caller asked for.
DamagedFileRaises ==
    PositionsRead =>
        /\ DamagedFiles # {} =>
               positions_call.raised \in {"ValiFileMissingException",
                                          "ValiBkpCorruptDataException"}
        /\ DamagedFiles = {} => positions_call.raised = None
        /\ (/\ positions_call.raised = None
            /\ positions_call.op = "get_all_miner_positions"
            /\ ~positions_call.args.only_open_positions
            /\ positions_call.args.end_ms_is_none) =>
               {x.file : x \in Range(positions_call.result)} =
                   Range(AllFilesInDir(positions_call.hotkeys[1]))

DamagedFileRaisesWitness ==
    /\ positions_call.op = "get_all_miner_positions_by_hotkey"
    /\ positions_call.hotkeys = <<"A", "B">>
    /\ positions_call.eliminations = [is_none |-> FALSE, rows |-> <<>>]
    /\ position_files["f1"] = "valid"
    /\ position_files["f2"] = "valid"
    /\ position_files["f3"] = "bad_json"
    /\ positions_call.raised = "ValiBkpCorruptDataException"

\* C39: when get_all_miner_positions_by_hotkey returns, the keys of its
\* result are exactly the requested hotkeys that have no row in the
\* eliminations argument; with eliminations=None every requested hotkey is a
\* key.
NoPositionsForEliminated ==
    (positions_call.op = "get_all_miner_positions_by_hotkey" /\ positions_call.raised = None) =>
        /\ DOMAIN positions_call.result = Range(positions_call.hotkeys) \ CallEliminated
        /\ positions_call.eliminations.is_none =>
               DOMAIN positions_call.result = Range(positions_call.hotkeys)

NoPositionsForEliminatedWitness ==
    /\ positions_call.op = "get_all_miner_positions_by_hotkey"
    /\ positions_call.raised = None
    /\ positions_call.hotkeys = <<"B", "A">>
    /\ CallEliminated = {"A"}
    /\ DOMAIN positions_call.result = {"B"}
    /\ position_files["f1"] = "bad_json"

\* ------------------------------------------------------------------------
\* Properties of SignalGenerator.generate_signal (SignalSpec)
\* ------------------------------------------------------------------------
GenerateSignalStep == signal_call'.op = "generate_signal"

\* C40: over any sequence of generate_signal calls current_position stays in
\* {-1, 0, 1}, one call never takes it from 1 to -1 or from -1 to 1, a call
\* with execute_trades false leaves it unchanged, and a call that changes it
\* has made exactly one send_signals call.
PositionChangesThroughFlat ==
    [][GenerateSignalStep =>
          /\ current_position' \in {-1, 0, 1}
          /\ ~(current_position = 1 /\ current_position' = -1)
          /\ ~(current_position = -1 /\ current_position' = 1)
          /\ ~signal_call'.args.execute_trades => current_position' = current_position
          /\ current_position' # current_position => signal_call'.sends = 1]_vars

PositionChangesThroughFlatWitness ==
    /\ signal_call.op = "generate_signal"
    /\ signal_call.before = 1
    /\ current_position = 0
    /\ signal_call.sends = 1
    /\ signal_call.args.execute_trades
    /\ signal_call.args.current_close < signal_call.args.lower_bound

====
